---- MODULE Spec2Model ----
(***************************************************************************)
(* Model of the portable ECG / SpO2 monitor: the byte-level packet decoder *)
(* and sample pipeline of process_data.py, the QRS detector of             *)
(* heartrate_algorithm.py, and the two transport producers                 *)
(* (serial_connect.py, bluetooth.py) gated by the GUI flags of gui.py.     *)
(***************************************************************************)
EXTENDS Integers, Sequences, FiniteSets, TLC

(* ------------------------------------------------------------------ *)
(* Program constants (process_data.py:32-53)                          *)
(* ------------------------------------------------------------------ *)
CESState_Init == 0
CESState_SOF1_Found == 1
CESState_SOF2_Found == 2
CESState_PktLen_Found == 3

CES_CMDIF_PKT_START_1 == 10
CES_CMDIF_PKT_START_2 == 250
CES_CMDIF_PKT_STOP == 11
CES_CMDIF_IND_LEN == 2
CES_CMDIF_IND_LEN_MSB == 3
CES_CMDIF_IND_PKTTYPE == 4
CES_CMDIF_PKT_OVERHEAD == 5
BUFFER_SIZE == 100

(* heartrate_algorithm.py:36-40 *)
MAX_PEAK_TO_SEARCH == 4
TWO_SEC_SAMPLES == 250
MAXIMA_SEARCH_WINDOW == 50
MINIMUM_SKIP_WINDOW == 30
SAMPLING_RATE == 125

(* length of the moving-average window prev_data (heartrate_algorithm.py:116) *)
PREV_DATA_LEN == 32

(* ------------------------------------------------------------------ *)
(* Bounds of the model                                                *)
(* ------------------------------------------------------------------ *)
\* frames one sender emits in the stream specification
MaxFrames == 2
\* frames fed in the window specification (must exceed BUFFER_SIZE)
MaxWinFrames == 102
\* samples fed in the QRS specification: calibration (250 samples), four
\* peaks, and the silence window of 3 * 125 samples
MaxQrsFrames == 680
\* frames fed in the vitals specification (the windows fill at 100)
MaxVitalFrames == 106
\* button clicks of the GUI in Spec
MaxUiEvents == 3
\* bytes of its frame the Bluetooth device delivers in Spec (one notification)
MaxBleBytes == 2

VARIABLES
  \* decoder: module globals of process_data.py
  pc_rx_state, CES_Pkt_Pos_Counter, CES_Data_Counter, CES_Pkt_Len,
  CES_Pkt_PktType, CES_Pkt_Data_Counter,
  \* pipeline: module globals of process_data.py
  ecg_value, ir_value, red_value, ecg_mV,
  ecg_samples, ir_samples, red_samples, heart_rate, ecg_processor,
  \* what the handler did to the user interface object
  add_data_log, heart_rate_signal, spo2_update_signal, record_log,
  \* history of the handler itself: triplets decoded, accepted stop bytes,
  \* calls of QRS_algorithm_interface, and what the last call did
  decoded, qrs_calls, last_call,
  \* GUI flags (gui.py:46-70)
  is_receiving_data, is_serial_connected, is_ble_connected, using_ble,
  is_recording_data, resolution_bits,
  \* gui.py's module-level name resolution_bits, bound by change_adc_bits
  \* (gui.py:606-609); None while unbound
  gui_resolution_bits,
  \* the environment: senders, transports, threads
  env

decoderVars == <<pc_rx_state, CES_Pkt_Pos_Counter, CES_Data_Counter, CES_Pkt_Len,
                 CES_Pkt_PktType, CES_Pkt_Data_Counter>>
pipeVars == <<ecg_value, ir_value, red_value, ecg_mV,
              ecg_samples, ir_samples, red_samples, heart_rate, ecg_processor>>
uiOutVars == <<add_data_log, heart_rate_signal, spo2_update_signal, record_log>>
histVars == <<decoded, qrs_calls, last_call>>
flagVars == <<is_receiving_data, is_serial_connected, is_ble_connected, using_ble,
              is_recording_data, resolution_bits,
                 gui_resolution_bits>>
vars == <<decoderVars, pipeVars, uiOutVars, histVars, flagVars, env>>

(* ------------------------------------------------------------------ *)
(* Arithmetic helpers                                                 *)
(* ------------------------------------------------------------------ *)
Abs(x) == IF x < 0 THEN -x ELSE x

\* Python's int(a / b) for b > 0: truncation toward zero
TruncDiv(a, b) == IF a >= 0 THEN a \div b ELSE -((-a) \div b)

\* s[lo] + ... + s[hi], by halves (the recursion stays shallow)
RECURSIVE SumRange(_, _, _)
SumRange(s, lo, hi) ==
  IF lo > hi THEN 0
  ELSE IF lo = hi THEN s[lo]
  ELSE LET mid == (lo + hi) \div 2
       IN SumRange(s, lo, mid) + SumRange(s, mid + 1, hi)

SumSeq(s) == SumRange(s, 1, Len(s))

Zeros(n) == [i \in 1..n |-> 0]

(* ------------------------------------------------------------------ *)
(* QRS detector (heartrate_algorithm.py), as functions of the          *)
(* detector object p                                                   *)
(* ------------------------------------------------------------------ *)
\* ECGRespirationAlgorithm.__init__: the fields the sample path uses
ECGRespirationAlgorithm ==
  [ max |-> 0, qrs_b4_buffer_ptr |-> 0,
    qrs_threshold_old |-> 0, qrs_threshold_new |-> 0,
    first_peak_detected |-> FALSE, heart_rate |-> <<0, 1>>,
    qrs_samples |-> Zeros(5), prev_data |-> Zeros(PREV_DATA_LEN),
    sample_count |-> 0, nopeak_count |-> 0, maxima_search |-> 0,
    peak |-> 0, maxima_sum |-> 0,
    sample_index |-> Zeros(MAX_PEAK_TO_SEARCH + 2),
    s_array_index |-> 0, m_array_index |-> 0,
    threshold_crossed |-> FALSE, peak_detected |-> FALSE,
    first_peak_detect |-> FALSE, start_sample_count_flag |-> FALSE,
    sample_sum |-> 0 ]

reset_variables(p) ==
  [p EXCEPT !.sample_count = 0, !.s_array_index = 0, !.m_array_index = 0,
            !.maxima_sum = 0, !.sample_index = Zeros(MAX_PEAK_TO_SEARCH + 2),
            !.start_sample_count_flag = FALSE, !.peak_detected = FALSE,
            !.sample_sum = 0, !.first_peak_detect = FALSE,
            !.nopeak_count = 0, !.heart_rate = <<0, 1>>]

\* heart rate 60*125/(sample_sum/3) as the fraction <<numerator, denominator>>,
\* capped at 250; the new threshold int(int(maxima_sum/4)*7/10); then the reset
\* a threshold taken from the peak sum, not from its average
AdaptedThreshold_OfSum(maxima_sum) == (maxima_sum * 7) \div 10

\* lines 283-286: int(int(maxima_sum / MAX_PEAK_TO_SEARCH) * 7 / 10)
AdaptedThreshold(maxima_sum) == ((maxima_sum \div MAX_PEAK_TO_SEARCH) * 7) \div 10

\* lines 280-282: min(60 * 125 / (sample_sum / 3), 250) as a fraction
HeartRateOf(sample_sum) ==
  LET num == 60 * SAMPLING_RATE * (MAX_PEAK_TO_SEARCH - 1)
  IN IF num > 250 * sample_sum THEN <<250, 1>> ELSE <<num, sample_sum>>

calculate_heart_rate(p) ==
  LET hr == HeartRateOf(p.sample_sum)
  IN reset_variables([p EXCEPT !.heart_rate = hr,
                               !.maxima_sum = AdaptedThreshold(p.maxima_sum),
                               !.qrs_threshold_new = AdaptedThreshold(p.maxima_sum)])

handle_no_peak(p) ==
  LET q == [p EXCEPT !.sample_count = @ + 1, !.nopeak_count = @ + 1]
  IN IF q.nopeak_count > 3 * SAMPLING_RATE THEN reset_variables(q) ELSE q

\* a search that lasts one sample longer
SearchEnds_Late(maxima_search) == maxima_search > MAXIMA_SEARCH_WINDOW

\* line 237
SearchEnds(maxima_search) == maxima_search >= MAXIMA_SEARCH_WINDOW

\* a heart rate computed only after a fifth peak
PeaksComplete_AtFive(m_array_index) == m_array_index = MAX_PEAK_TO_SEARCH + 1

\* a heart rate computed as soon as one peak is latched
PeaksComplete_AtOne(m_array_index) == m_array_index >= 1

\* line 251
PeaksComplete(m_array_index) == m_array_index = MAX_PEAK_TO_SEARCH

QRS_check_sample_crossing_threshold(p, scaled_result) ==
  IF p.threshold_crossed THEN
    LET q == [p EXCEPT !.sample_count = @ + 1, !.maxima_search = @ + 1,
                       !.peak = IF scaled_result > @ THEN scaled_result ELSE @]
    IN IF SearchEnds(q.maxima_search)
       THEN [q EXCEPT !.maxima_sum = @ + q.peak, !.maxima_search = 0,
                      !.threshold_crossed = FALSE, !.peak_detected = TRUE]
       ELSE q
  ELSE IF p.peak_detected THEN
    LET q == [p EXCEPT !.sample_count = @ + 1, !.nopeak_count = @ + 1]
        r == IF q.nopeak_count >= MINIMUM_SKIP_WINDOW
             THEN [q EXCEPT !.nopeak_count = 0, !.peak_detected = FALSE]
             ELSE q
    IN IF PeaksComplete(r.m_array_index) THEN calculate_heart_rate(r) ELSE r
  ELSE IF scaled_result > p.qrs_threshold_new THEN
    LET q == [p EXCEPT !.start_sample_count_flag = TRUE, !.sample_count = @ + 1,
                       !.m_array_index = @ + 1, !.threshold_crossed = TRUE,
                       !.peak = scaled_result]
        r == [q EXCEPT !.sample_index[q.s_array_index + 1] = q.sample_count]
        t == IF r.s_array_index >= 1
             THEN [r EXCEPT !.sample_sum = @ + (r.sample_index[r.s_array_index + 1]
                                                - r.sample_index[r.s_array_index])]
             ELSE r
    IN [t EXCEPT !.s_array_index = @ + 1]
  ELSE IF scaled_result < p.qrs_threshold_new /\ p.start_sample_count_flag THEN
    handle_no_peak(p)
  ELSE
    LET q == [p EXCEPT !.nopeak_count = @ + 1]
    IN IF q.nopeak_count > 3 * SAMPLING_RATE THEN reset_variables(q) ELSE q

\* a threshold at half the maximum
CalibratedThreshold_Half(max) == max \div 2

\* line 213: (self.max * 7) // 10
CalibratedThreshold(max) == (max * 7) \div 10

\* a detector that tests every sample from the first
IsCalibrated_Always(p) == TRUE

\* line 220
IsCalibrated(p) == p.first_peak_detected

QRS_process_buffer(p) ==
  LET QRS_Prev_Sample == p.qrs_samples[4]
      QRS_Next_Sample == p.qrs_samples[5]
      scaled_result == Abs(QRS_Next_Sample - QRS_Prev_Sample)
      q == [p EXCEPT !.max = IF scaled_result > @ THEN scaled_result ELSE @,
                     !.qrs_b4_buffer_ptr = @ + 1]
      r == IF q.qrs_b4_buffer_ptr = TWO_SEC_SAMPLES
           THEN [q EXCEPT !.qrs_threshold_old = CalibratedThreshold(q.max),
                          !.qrs_threshold_new = CalibratedThreshold(q.max),
                          !.first_peak_detected = TRUE,
                          !.max = 0, !.qrs_b4_buffer_ptr = 0]
           ELSE q
  IN IF IsCalibrated(r)
     THEN QRS_check_sample_crossing_threshold(r, scaled_result)
     ELSE r

\* A Python int stored into the np.int16 array prev_data. A value outside
\* -32768..32767 wraps (NumPy before 2.0) or raises OverflowError (NumPy 2):
\* the source pins no NumPy version, so both outcomes are kept.
OverflowOutcomes == {"wrap", "raise"}
Int16Fits(v) == -32768 <= v /\ v <= 32767
Int16Wrap(v) == ((v + 32768) % 65536) - 32768

\* QRS_algorithm_interface: [p |-> the detector afterwards, raised |-> whether
\* the store into prev_data raised]
QRS_algorithm_interface(p, curr_sample, ovf) ==
  LET shifted == [i \in 1..PREV_DATA_LEN |->
                    IF i = 1 THEN p.prev_data[1] ELSE p.prev_data[i - 1]]
  IN IF ~Int16Fits(curr_sample) /\ ovf = "raise"
     THEN [p |-> [p EXCEPT !.prev_data = shifted], raised |-> TRUE]
     ELSE LET stored == [shifted EXCEPT ![1] = Int16Wrap(curr_sample)]
              mac == TruncDiv(SumSeq(stored), PREV_DATA_LEN)
              q == [p EXCEPT !.prev_data = stored,
                             !.qrs_samples = <<mac>> \o SubSeq(@, 1, 4)]
          IN [p |-> QRS_process_buffer(q), raised |-> FALSE]

(* ------------------------------------------------------------------ *)
(* SpO2 estimator (spo2_algorithm.py). The source computes in floating *)
(* point; every quantity is a ratio of integers and is compared here   *)
(* exactly, scaled to integers.                                        *)
(* ------------------------------------------------------------------ *)
\* Python's None; an optional integer v that is present is Some(v)
None == <<>>
Some(v) == <<v>>

\* a table that only falls as the index grows
uch_spo2_table_Decreasing == [i \in 1..183 |-> 100 - (i \div 2)]

uch_spo2_table ==
  << 95, 95, 95, 96, 96, 96, 97, 97, 97, 97, 97, 98, 98, 98, 98, 98, 99, 99, 99, 99,
     99, 99, 99, 99, 100, 100, 100, 100, 100, 100, 100, 100, 100, 100, 100, 100, 100, 100, 100, 100,
     100, 100, 100, 100, 99, 99, 99, 99, 99, 99, 99, 99, 98, 98, 98, 98, 98, 98, 97, 97,
     97, 97, 96, 96, 96, 96, 95, 95, 95, 94, 94, 94, 93, 93, 93, 92, 92, 92, 91, 91,
     90, 90, 89, 89, 89, 88, 88, 87, 87, 86, 86, 85, 85, 84, 84, 83, 82, 82, 81, 81,
     80, 80, 79, 78, 78, 77, 76, 76, 75, 74, 74, 73, 72, 72, 71, 70, 69, 69, 68, 67,
     66, 66, 65, 64, 63, 62, 62, 61, 60, 59, 58, 57, 56, 56, 55, 54, 53, 52, 51, 50,
     49, 48, 47, 46, 45, 44, 43, 42, 41, 40, 39, 38, 37, 36, 35, 34, 33, 31, 30, 29,
     28, 27, 26, 25, 23, 22, 21, 20, 19, 17, 16, 15, 14, 12, 11, 10, 9, 7, 6, 5,
     3, 2, 1 >>

MA4_SIZE == 4

\* index k of a Python list / array, 0-based, on a TLA+ sequence
At(s, k) == s[k + 1]

SeqMax(s) == CHOOSE m \in {s[i] : i \in DOMAIN s} : \A i \in DOMAIN s : s[i] <= m

\* sorted(f)[k], 0-based, of a non-empty sequence of integers
SortedAt(f, k) ==
  CHOOSE v \in {f[i] : i \in DOMAIN f} :
    /\ Cardinality({j \in DOMAIN f : f[j] < v}) <= k
    /\ k < Cardinality({j \in DOMAIN f : f[j] <= v})

\* lines 45-46: N * an_x[k] after DC removal and negation, S the sum of the
\* IR window
DcRemoved(ir, S) == [k \in 0..(Len(ir) - 1) |-> S - Len(ir) * At(ir, k)]

\* lines 49-50: the in-place 4-point moving average over
\* range(BUFFER_SIZE - MA4_SIZE), times MA4_SIZE; the last entries are untouched
MovingAverage(X, N) ==
  [k \in 0..(N - 1) |->
     IF k < N - MA4_SIZE THEN X[k] + X[k + 1] + X[k + 2] + X[k + 3]
     ELSE MA4_SIZE * X[k]]

\* lines 45-50: N * 4 * an_x
SmoothedIr(ir) == MovingAverage(DcRemoved(ir, SumSeq(ir)), Len(ir))

\* line 54: max(lo, min(T, hi))
Clamp(T, lo, hi) == IF T < lo THEN lo ELSE IF T > hi THEN hi ELSE T

\* lines 53-54: 4 * N * N * n_th1, n_th1 = max(30, min(mean(|an_x|), 60))
ValleyThreshold(z, N) ==
  Clamp(SumSeq([i \in 1..N |-> Abs(z[i - 1])]),
        30 * MA4_SIZE * N * N, 60 * MA4_SIZE * N * N)

\* lines 57-60: the locations k in 1..N-2 below -n_th1 and below both
\* neighbours, ascending
ValleysBelow(z, th, N) ==
  SelectSeq([i \in 1..(N - 2) |-> i],
            LAMBDA k : z[k] * N < -th /\ z[k] < z[k - 1] /\ z[k] < z[k + 1])

ValleysOf(z, N) == ValleysBelow(z, ValleyThreshold(z, N), N)

ValleyLocs(ir) == ValleysOf(SmoothedIr(ir), Len(ir))

\* int(100 * a / b) for a >= 0, b > 0, by long division (the products stay
\* within the model checker's 32-bit integers)
PercentDigits(q, r, b) ==
  100 * q + 10 * ((10 * r) \div b) + (10 * ((10 * r) % b)) \div b

Percent(a, b) == PercentDigits(a \div b, a % b, b)

\* lines 84-89: int(100 * n_nume / n_denom), or None when n_denom <= 0
RatioOf(nume, denom) == IF denom > 0 THEN Some(Percent(nume, denom)) ELSE None

\* lines 80-83: the AC/DC products of a beat of L samples
BeatProducts(L, xmax, ymax, xsum, ysum) ==
  RatioOf((L * ymax - ysum) * xmax, (L * xmax - xsum) * ymax)

BeatOf(xs, ys) ==
  BeatProducts(Len(xs), SeqMax(xs), SeqMax(ys), SumSeq(xs), SumSeq(ys))

\* lines 76-89: the ratio of the beat between valleys a and b
BeatRatio(ir, red, a, b) == BeatOf(SubSeq(ir, a + 1, b), SubSeq(red, a + 1, b))

\* an estimator that reports 75 where the source reports the sentinel
PeakHeartRate_NoSentinel(locs) ==
  IF Len(locs) >= 2 THEN <<60 * 25, locs[Len(locs)] - locs[1]>> ELSE <<75, 1>>

\* lines 63-68: 60 * 25 / (last valley - first valley) as a fraction, or -999
PeakHeartRate(locs) ==
  IF Len(locs) >= 2 THEN <<60 * 25, locs[Len(locs)] - locs[1]>> ELSE <<-999, 1>>

\* lines 71-89: the ratios of the consecutive beats that have one
BeatRatios(ir, red, locs) ==
  SelectSeq([k \in 1..(IF Len(locs) >= 2 THEN Len(locs) - 1 ELSE 0) |->
               BeatRatio(ir, red, locs[k], locs[k + 1])],
            LAMBDA r : r # None)

\* the lookup with the lower limit moved down by one
LookupSpo2_FromTwo(ratio) ==
  IF 1 < ratio /\ ratio < 183 THEN Some(At(uch_spo2_table, ratio)) ELSE None

\* lines 92-99: the table entry at the upper median ratio, when it is in 3..182
LookupSpo2(ratio) ==
  IF 2 < ratio /\ ratio < 183 THEN Some(At(uch_spo2_table, ratio)) ELSE None

MedianSpo2(kept) ==
  IF Len(kept) > 0
  THEN LookupSpo2(SortedAt([i \in 1..Len(kept) |-> kept[i][1]], Len(kept) \div 2))
  ELSE None

EstimateFrom(ir, red, locs) ==
  [spo2 |-> MedianSpo2(BeatRatios(ir, red, locs)), hr |-> PeakHeartRate(locs)]

\* estimate_spo2: [spo2 |-> Some(percent) or None, hr |-> <<numerator, denominator>>]
estimate_spo2(pun_ir_buffer, pun_red_buffer) ==
  IF Len(pun_ir_buffer) = 0 \/ Len(pun_red_buffer) = 0
  THEN [spo2 |-> None, hr |-> None]
  ELSE EstimateFrom(pun_ir_buffer, pun_red_buffer, ValleyLocs(pun_ir_buffer))

(* ------------------------------------------------------------------ *)
(* process_data.py                                                    *)
(* ------------------------------------------------------------------ *)
\* adc_to_voltage: (adc_value / (2^bits - 1)) * 1.8 * 1000 millivolts, kept as
\* the exact fraction <<numerator, denominator>>
adc_to_voltage(adc_value, bits) == <<adc_value * 1800, 2^bits - 1>>

\* the payload range of the documented layout: the stop byte directly after the
\* len payload bytes
InPayloadRange_NoExtra(pos, len) ==
  CES_CMDIF_PKT_OVERHEAD <= pos /\ pos < CES_CMDIF_PKT_OVERHEAD + len

\* line 121: the positions whose bytes are taken as payload
InPayloadRange(pos, len) ==
  CES_CMDIF_PKT_OVERHEAD <= pos /\ pos < CES_CMDIF_PKT_OVERHEAD + len + 1

\* lines 131-133: buf[k] | (buf[k+1] << 8) on bytes
DecodeLE(buf, k) == At(buf, k) + 256 * At(buf, k + 1)

\* lines 140-146: append to a rolling window, dropping the oldest beyond BUFFER_SIZE
PushWindow(w, v) ==
  LET a == Append(w, v) IN IF Len(a) > BUFFER_SIZE THEN Tail(a) ELSE a

\* a band without its lower end
InHeartRateBand_NoFloor(hr) == hr[1] <= 140 * hr[2]

\* lines 152-153: the band in which a heart rate <<n, d>> is emitted
InHeartRateBand(hr) == 60 * hr[2] <= hr[1] /\ hr[1] <= 140 * hr[2]

\* str(int(heart_rate)) of a fraction
HeartRateText(hr) == TruncDiv(hr[1], hr[2])

\* what one call of process_data did and the decoder variables it started
\* from (history, not program state)
CallInfo(rx, stop, accepted, raised) ==
  [rx |-> rx, at_stop |-> stop, accepted |-> accepted, raised |-> raised,
   state |-> pc_rx_state, pos |-> CES_Pkt_Pos_Counter,
   ptype |-> CES_Pkt_PktType, dcount |-> CES_Data_Counter,
   len |-> CES_Pkt_Len]

\* a decoder that takes a repeated 0x0A as a new first start byte
Sof1Next_RestartOnSof1(rx_char) ==
  IF rx_char = CES_CMDIF_PKT_START_2 THEN CESState_SOF2_Found
  ELSE IF rx_char = CES_CMDIF_PKT_START_1 THEN CESState_SOF1_Found
  ELSE CESState_Init

\* lines 101-104: the state after the byte that follows 0x0A
Sof1Next(rx_char) ==
  IF rx_char = CES_CMDIF_PKT_START_2 THEN CESState_SOF2_Found ELSE CESState_Init

\* a decoder that stays in the frame when the stop position holds another byte
StopNext_Stay(rx_char) ==
  IF rx_char = CES_CMDIF_PKT_STOP THEN CESState_Init ELSE CESState_PktLen_Found

\* lines 129, 163-167: the state after the byte in the stop position
StopNext(rx_char) == CESState_Init

\* a decoder that accepts any byte in the stop position
IsStopByte_Any(rx_char) == TRUE

\* line 129
IsStopByte(rx_char) == rx_char = CES_CMDIF_PKT_STOP

\* lines 95-97
RxInit(rx_char) ==
  /\ pc_rx_state = CESState_Init
  /\ pc_rx_state' = IF rx_char = CES_CMDIF_PKT_START_1
                    THEN CESState_SOF1_Found ELSE pc_rx_state
  /\ last_call' = CallInfo(rx_char, FALSE, FALSE, FALSE)
  /\ UNCHANGED <<CES_Pkt_Pos_Counter, CES_Data_Counter, CES_Pkt_Len,
                 CES_Pkt_PktType, CES_Pkt_Data_Counter>>
  /\ UNCHANGED <<pipeVars, uiOutVars, decoded, qrs_calls>>

\* lines 100-104
RxSof1(rx_char) ==
  /\ pc_rx_state = CESState_SOF1_Found
  /\ pc_rx_state' = Sof1Next(rx_char)
  /\ last_call' = CallInfo(rx_char, FALSE, FALSE, FALSE)
  /\ UNCHANGED <<CES_Pkt_Pos_Counter, CES_Data_Counter, CES_Pkt_Len,
                 CES_Pkt_PktType, CES_Pkt_Data_Counter>>
  /\ UNCHANGED <<pipeVars, uiOutVars, decoded, qrs_calls>>

\* lines 107-111
RxSof2(rx_char) ==
  /\ pc_rx_state = CESState_SOF2_Found
  /\ pc_rx_state' = CESState_PktLen_Found
  /\ CES_Pkt_Len' = rx_char
  /\ CES_Pkt_Pos_Counter' = CES_CMDIF_IND_LEN
  /\ CES_Data_Counter' = 0
  /\ last_call' = CallInfo(rx_char, FALSE, FALSE, FALSE)
  /\ UNCHANGED <<CES_Pkt_PktType, CES_Pkt_Data_Counter>>
  /\ UNCHANGED <<pipeVars, uiOutVars, decoded, qrs_calls>>

\* a buffer that always takes one more byte
HasFreeSlot_Always(counter, buffer) == TRUE

\* line 123: CES_Data_Counter < len(CES_Pkt_Data_Counter)
HasFreeSlot(counter, buffer) == counter < Len(buffer)

\* lines 114-125: header and payload bytes
RxHeaderOrBody(rx_char) ==
  LET pos == CES_Pkt_Pos_Counter + 1 IN
  /\ pc_rx_state = CESState_PktLen_Found
  /\ pos < CES_CMDIF_PKT_OVERHEAD \/ InPayloadRange(pos, CES_Pkt_Len)
  /\ CES_Pkt_Pos_Counter' = pos
  /\ CES_Pkt_Len' = IF pos < CES_CMDIF_PKT_OVERHEAD /\ pos = CES_CMDIF_IND_LEN_MSB
                    THEN rx_char * 256 + CES_Pkt_Len ELSE CES_Pkt_Len
  /\ CES_Pkt_PktType' = IF pos < CES_CMDIF_PKT_OVERHEAD /\ pos = CES_CMDIF_IND_PKTTYPE
                        THEN rx_char ELSE CES_Pkt_PktType
  /\ IF /\ ~(pos < CES_CMDIF_PKT_OVERHEAD)
        /\ CES_Pkt_PktType = 2
        /\ HasFreeSlot(CES_Data_Counter, CES_Pkt_Data_Counter)
     THEN /\ CES_Pkt_Data_Counter' =
               [CES_Pkt_Data_Counter EXCEPT ![CES_Data_Counter + 1] = rx_char]
          /\ CES_Data_Counter' = CES_Data_Counter + 1
     ELSE UNCHANGED <<CES_Pkt_Data_Counter, CES_Data_Counter>>
  /\ last_call' = CallInfo(rx_char, FALSE, FALSE, FALSE)
  /\ UNCHANGED pc_rx_state
  /\ UNCHANGED <<pipeVars, uiOutVars, decoded, qrs_calls>>

\* lines 128-167: the byte in the stop position
RxStop(rx_char, ovf) ==
  LET pos == CES_Pkt_Pos_Counter + 1
      ecg == DecodeLE(CES_Pkt_Data_Counter, 0)
      ir == DecodeLE(CES_Pkt_Data_Counter, 2)
      red == DecodeLE(CES_Pkt_Data_Counter, 4)
      mV == adc_to_voltage(ecg, resolution_bits)
      qrs == QRS_algorithm_interface(ecg_processor, ecg, ovf)
      irs == PushWindow(ir_samples, ir)
      reds == PushWindow(red_samples, red)
      full == Len(irs) >= BUFFER_SIZE /\ Len(reds) >= BUFFER_SIZE
      est == estimate_spo2(irs, reds)
      spo2_value == IF full THEN est.spo2 ELSE None
  IN
  /\ pc_rx_state = CESState_PktLen_Found
  /\ ~(pos < CES_CMDIF_PKT_OVERHEAD \/ InPayloadRange(pos, CES_Pkt_Len))
  /\ CES_Pkt_Pos_Counter' = pos
  /\ UNCHANGED <<CES_Pkt_Len, CES_Pkt_PktType, CES_Pkt_Data_Counter>>
  /\ IF ~IsStopByte(rx_char) THEN
       \* lines 165-167
       /\ pc_rx_state' = StopNext(rx_char)
       /\ last_call' = CallInfo(rx_char, TRUE, FALSE, FALSE)
       /\ UNCHANGED <<CES_Data_Counter, pipeVars, uiOutVars, decoded, qrs_calls>>
     ELSE
       /\ ecg_value' = ecg
       /\ ir_value' = ir
       /\ red_value' = red
       /\ ecg_mV' = mV
       /\ decoded' = Append(decoded, <<ecg, ir, red>>)
       /\ qrs_calls' = qrs_calls + 1
       /\ ecg_processor' = qrs.p
       /\ last_call' = CallInfo(rx_char, TRUE, TRUE, qrs.raised)
       /\ IF qrs.raised THEN
            \* the exception leaves process_data at line 136
            /\ ecg_samples' = Append(ecg_samples, mV)
            /\ UNCHANGED <<pc_rx_state, CES_Data_Counter, ir_samples, red_samples,
                           heart_rate, uiOutVars>>
          ELSE
            /\ ecg_samples' = Append(Append(ecg_samples, mV), mV)
            /\ add_data_log' = Append(add_data_log, <<mV, ir>>)
            /\ ir_samples' = irs
            /\ red_samples' = reds
            /\ heart_rate' = IF full THEN est.hr ELSE qrs.p.heart_rate
            /\ heart_rate_signal' =
                 IF full /\ InHeartRateBand(est.hr)
                 THEN Append(heart_rate_signal, HeartRateText(est.hr))
                 ELSE heart_rate_signal
            /\ spo2_update_signal' =
                 IF full THEN Append(spo2_update_signal, spo2_value)
                 ELSE spo2_update_signal
            /\ record_log' =
                 IF is_recording_data
                 THEN Append(record_log, <<adc_to_voltage(ecg, resolution_bits),
                                           ir, red, spo2_value>>)
                 ELSE record_log
            /\ pc_rx_state' = StopNext(rx_char)
            /\ CES_Data_Counter' = 0

\* process_data(rx_char, ui); ovf is the outcome of an out-of-range int16 store
process_data(rx_char, ovf) ==
  \/ RxInit(rx_char)
  \/ RxSof1(rx_char)
  \/ RxSof2(rx_char)
  \/ RxHeaderOrBody(rx_char)
  \/ RxStop(rx_char, ovf)

(* ------------------------------------------------------------------ *)
(* State after construction                                           *)
(* ------------------------------------------------------------------ *)
\* process_data.py:47-62
ProgInit ==
  /\ pc_rx_state = CESState_Init
  /\ CES_Pkt_Pos_Counter = 0
  /\ CES_Data_Counter = 0
  /\ CES_Pkt_Len = 0
  /\ CES_Pkt_PktType = 0
  /\ CES_Pkt_Data_Counter = Zeros(6)
  /\ ecg_value = 0
  /\ ir_value = 0
  /\ red_value = 0
  /\ ecg_mV = <<0, 1>>
  /\ ecg_samples = <<>>
  /\ ir_samples = <<>>
  /\ red_samples = <<>>
  /\ heart_rate = None
  /\ ecg_processor = ECGRespirationAlgorithm
  /\ add_data_log = <<>>
  /\ heart_rate_signal = <<>>
  /\ spo2_update_signal = <<>>
  /\ record_log = <<>>
  /\ decoded = <<>>
  /\ qrs_calls = 0
  /\ last_call = CallInfo(0, FALSE, FALSE, FALSE)

\* Ui_MainWindow.__init__ (gui.py:46-70)
UiInit ==
  /\ using_ble = FALSE
  /\ is_ble_connected = FALSE
  /\ is_serial_connected = FALSE
  /\ is_receiving_data = FALSE
  /\ is_recording_data = FALSE
  /\ resolution_bits = 18
  /\ gui_resolution_bits = None

(* ------------------------------------------------------------------ *)
(* Frames on the wire                                                 *)
(* ------------------------------------------------------------------ *)
Header(len, type) ==
  <<CES_CMDIF_PKT_START_1, CES_CMDIF_PKT_START_2, len % 256, len \div 256, type>>

\* three little-endian u16 channels of the triplet t = <<ecg, ir, red>>
PayloadBytes(t) ==
  <<t[1] % 256, t[1] \div 256, t[2] % 256, t[2] \div 256, t[3] % 256, t[3] \div 256>>

\* the vitals frame of the wire protocol as documented: the stop byte directly
\* after the 6 payload bytes
SpecFrame(t) == Header(6, 2) \o PayloadBytes(t) \o <<CES_CMDIF_PKT_STOP>>

\* the vitals frame the decoder's boundary (line 121) accepts: one more byte,
\* counted as payload but not stored, before the stop byte
DeviceFrame(t, fill) ==
  Header(6, 2) \o PayloadBytes(t) \o <<fill, CES_CMDIF_PKT_STOP>>

(* ------------------------------------------------------------------ *)
(* SpecRT: one vitals frame fed byte by byte to a fresh decoder        *)
(* ------------------------------------------------------------------ *)
RTVals == {0, 100, 2000, 3000, 2827, 65535}
Triplets == RTVals \X RTVals \X RTVals
FillBytes == {0, 10, 11}

RTInit ==
  /\ ProgInit
  /\ UiInit
  /\ env \in [kind : {"spec", "device"}, t : Triplets, fill : FillBytes, i : {0}]

RTFrame == IF env.kind = "spec" THEN SpecFrame(env.t) ELSE DeviceFrame(env.t, env.fill)

RTFeed ==
  /\ env.i < Len(RTFrame)
  /\ \E ovf \in OverflowOutcomes : process_data(RTFrame[env.i + 1], ovf)
  /\ env' = [env EXCEPT !.i = @ + 1]
  /\ UNCHANGED flagVars

RTNext == RTFeed

SpecRT == RTInit /\ [][RTNext]_vars

(* C1 (as stated): the 12 bytes of the documented frame, fed to a fresh decoder,
   yield exactly one decoded triplet equal to (ecg, ir, red) by the time the
   final byte 0x0B has been consumed. *)
C1_RoundTrip12 ==
  (env.kind = "spec" /\ env.i = 12) =>
     /\ Len(decoded) = 1
     /\ decoded[1] = env.t
     /\ <<ecg_value, ir_value, red_value>> = env.t

(* C1 (amended): the same round trip holds for the 13-byte frame that carries
   one further byte of any value between the payload and the stop byte: exactly
   one triplet is decoded, it equals (ecg, ir, red), it is decoded when the 13th
   byte 0x0B is consumed and not before; the 12-byte frame decodes nothing. *)
C1_RoundTrip13 ==
  /\ (env.kind = "device" /\ env.i = 13) =>
        /\ Len(decoded) = 1
        /\ decoded[1] = env.t
        /\ <<ecg_value, ir_value, red_value>> = env.t
        /\ last_call.accepted
  /\ (env.kind = "device" /\ env.i < 13) => decoded = <<>>
  /\ (env.kind = "spec") => decoded = <<>>

C1_Witness ==
  /\ env.kind = "device" /\ env.i = 13 /\ env.t = <<100, 2000, 3000>>
  /\ decoded = << <<100, 2000, 3000>> >>

(* ------------------------------------------------------------------ *)
(* SpecStream: one caller feeds a stream of frames, well-formed and    *)
(* malformed, byte by byte                                             *)
(* ------------------------------------------------------------------ *)
\* payload triplets of the stream: all six bytes differ between the first two,
\* the third has an ECG value above 32767
StreamTriplets == { <<257, 514, 771>>, <<4112, 8224, 12336>>, <<40000, 1, 2>> }

\* a vitals frame whose byte in the stop position is not 0x0B
BadStopFrame(t) == Header(6, 2) \o PayloadBytes(t) \o <<0, 0>>
\* a frame of another packet type, in the layout the decoder accepts
OtherTypeFrame(t) == Header(6, 3) \o PayloadBytes(t) \o <<0, CES_CMDIF_PKT_STOP>>
\* a vitals frame of declared length 2: three bytes land in the payload positions
ShortFrame(t) == Header(2, 2) \o SubSeq(PayloadBytes(t), 1, 3) \o <<CES_CMDIF_PKT_STOP>>
\* 0x0A followed by a byte other than 0xFA
BadStartFrame == <<CES_CMDIF_PKT_START_1, 0>>

StreamMenu ==
  {[kind |-> "device", t |-> t, bytes |-> DeviceFrame(t, 0)] : t \in StreamTriplets}
  \cup {[kind |-> "spec", t |-> t, bytes |-> SpecFrame(t)] : t \in StreamTriplets}
  \cup {[kind |-> "badstop", t |-> t, bytes |-> BadStopFrame(t)] : t \in StreamTriplets}
  \cup {[kind |-> "other", t |-> t, bytes |-> OtherTypeFrame(t)] : t \in StreamTriplets}
  \cup {[kind |-> "short", t |-> t, bytes |-> ShortFrame(t)] : t \in StreamTriplets}
  \cup {[kind |-> "badstart", t |-> <<0, 0, 0>>, bytes |-> BadStartFrame]}

StreamInit ==
  /\ ProgInit
  /\ UiInit
  /\ env = [cur |-> [kind |-> "none", t |-> <<0, 0, 0>>, bytes |-> <<>>],
            i |-> 0, n |-> 0, prev |-> <<>>]

\* the sender starts its next frame
StreamSend ==
  /\ env.i = Len(env.cur.bytes)
  /\ env.n < MaxFrames
  /\ \E f \in StreamMenu :
       env' = [cur |-> f, i |-> 0, n |-> env.n + 1,
               prev |-> Append(env.prev, env.cur.kind)]
  /\ UNCHANGED <<decoderVars, pipeVars, uiOutVars, histVars, flagVars>>

\* the caller passes the next byte to process_data
StreamFeed ==
  /\ env.i < Len(env.cur.bytes)
  /\ \E ovf \in OverflowOutcomes : process_data(env.cur.bytes[env.i + 1], ovf)
  /\ env' = [env EXCEPT !.i = @ + 1]
  /\ UNCHANGED flagVars

StreamNext == StreamSend \/ StreamFeed

SpecStream == StreamInit /\ [][StreamNext]_vars

\* the call in this step consumed the byte in the stop position
AtStopStep ==
  /\ pc_rx_state = CESState_PktLen_Found
  /\ CES_Pkt_Pos_Counter' = CES_Pkt_Pos_Counter + 1
  /\ ~(CES_Pkt_Pos_Counter' < CES_CMDIF_PKT_OVERHEAD
       \/ InPayloadRange(CES_Pkt_Pos_Counter', CES_Pkt_Len))

\* nothing was handed to a consumer in this step
NoConsumerStep ==
  /\ decoded' = decoded
  /\ qrs_calls' = qrs_calls
  /\ UNCHANGED <<ecg_samples, ir_samples, red_samples, ecg_processor>>
  /\ UNCHANGED uiOutVars

\* a triplet was decoded in this step
DecodeStep == Len(decoded') = Len(decoded) + 1

\* the call that just returned rejected a malformed frame
MalformedSeen ==
  \/ last_call.state = CESState_SOF1_Found /\ last_call.rx # CES_CMDIF_PKT_START_2
  \/ last_call.at_stop /\ last_call.rx # CES_CMDIF_PKT_STOP

(* C3 (as stated): when the byte in the stop position of a frame whose
   packetType is not 2 is consumed, no triplet is decoded and no consumer
   (add_data, QRS detector, IR/RED windows, SpO2 update) is invoked. *)
C3_OtherTypeSilent ==
  [][(AtStopStep /\ CES_Pkt_PktType # 2) => NoConsumerStep]_vars

(* C4 (as stated): after any malformed frame every decoder variable equals its
   value immediately after construction. *)
C4_ResetToConstruction ==
  MalformedSeen =>
    /\ pc_rx_state = CESState_Init
    /\ CES_Pkt_Pos_Counter = 0
    /\ CES_Data_Counter = 0
    /\ CES_Pkt_Len = 0
    /\ CES_Pkt_PktType = 0

(* C4 (amended): after any malformed frame the state variable equals Init; the
   position counter, data counter, packet length and packet type are not
   zeroed but keep the values of the rejected frame, and the first three are
   set anew when the next frame's length low byte is consumed. *)
C4_ResyncToInit ==
  /\ MalformedSeen =>
       /\ pc_rx_state = CESState_Init
       /\ CES_Pkt_Pos_Counter = last_call.pos + (IF last_call.at_stop THEN 1 ELSE 0)
       /\ CES_Data_Counter = last_call.dcount
       /\ CES_Pkt_Len = last_call.len
       /\ CES_Pkt_PktType = last_call.ptype
  /\ last_call.state = CESState_SOF2_Found =>
       /\ pc_rx_state = CESState_PktLen_Found
       /\ CES_Pkt_Pos_Counter = CES_CMDIF_IND_LEN
       /\ CES_Data_Counter = 0
       /\ CES_Pkt_Len = last_call.rx

\* a bad stop byte was rejected and the counters of the rejected frame remain
C4_Witness ==
  /\ last_call.at_stop /\ last_call.rx # CES_CMDIF_PKT_STOP
  /\ pc_rx_state = CESState_Init
  /\ CES_Pkt_Pos_Counter = 12 /\ CES_Data_Counter = 6 /\ CES_Pkt_Len = 6

(* C5 (as stated): a triplet is emitted only when exactly 6 payload bytes of the
   current frame were captured, and it is built only from the payload bytes of
   the frame that ends with the accepted stop byte. *)
C5_OnlyFullFrames ==
  [][DecodeStep =>
       /\ CES_Data_Counter = 6
       /\ decoded'[Len(decoded')] = env.cur.t]_vars

(* C8 (as stated): one accepted stop byte causes exactly one add_data call, one
   QRS_algorithm_interface call, one append to ir_samples, one to red_samples
   and one entry appended to ecg_samples. *)
C8_ConsumedOnce ==
  [][DecodeStep =>
       /\ Len(add_data_log') = Len(add_data_log) + 1
       /\ qrs_calls' = qrs_calls + 1
       /\ ir_samples' = PushWindow(ir_samples, ir_value')
       /\ red_samples' = PushWindow(red_samples, red_value')
       /\ Len(ecg_samples') = Len(ecg_samples) + 1]_vars

(* ------------------------------------------------------------------ *)
(* SpecWindow: a long run of accepted vitals frames, enough to fill    *)
(* and roll the 100-sample windows                                     *)
(* ------------------------------------------------------------------ *)
\* the n-th triplet: a pulsatile IR/RED waveform of period 25 on a slow
\* drift (all values differ), and one ECG value above 32767
WinWave(n) == 40 * Abs((n % 25) - 12)
WinTriplet(n) ==
  << IF n = 5 THEN 40000 ELSE 100 * (n % 7),
     3000 + WinWave(n) + n,
     2000 + (WinWave(n) \div 2) + n >>

WinInit ==
  /\ ProgInit
  /\ UiInit
  /\ env = [n |-> 1, i |-> 0]

WinFrame == DeviceFrame(WinTriplet(env.n), 0)

WinFeed ==
  /\ env.n <= MaxWinFrames
  /\ \E ovf \in OverflowOutcomes : process_data(WinFrame[env.i + 1], ovf)
  /\ env' = IF env.i + 1 = Len(WinFrame) THEN [n |-> env.n + 1, i |-> 0]
            ELSE [env EXCEPT !.i = @ + 1]
  /\ UNCHANGED flagVars

WinNext == WinFeed

SpecWindow == WinInit /\ [][WinNext]_vars

Min(a, b) == IF a < b THEN a ELSE b

\* the last m entries of channel c of the triplets decoded so far
RecentDecoded(c, m) ==
  [k \in 1..m |-> decoded[Len(decoded) - m + k][c]]

(* C9 (as stated): the number of ECG samples stored by the pipeline stays below
   a fixed bound whatever the number of decoded frames; here the bound is twice
   the capacity of the rolling windows. *)
C9_EcgSamplesBounded == Len(ecg_samples) <= 2 * BUFFER_SIZE

(* C10 (as stated): after n decoded triplets ir_samples and red_samples each
   hold exactly the min(n, 100) most recent values in arrival order; the two
   windows have equal length and neither exceeds 100. *)
C10_RollingWindows ==
  LET m == Min(Len(decoded), BUFFER_SIZE) IN
  /\ ir_samples = RecentDecoded(2, m)
  /\ red_samples = RecentDecoded(3, m)
  /\ Len(ir_samples) = Len(red_samples)
  /\ Len(ir_samples) <= BUFFER_SIZE

(* ------------------------------------------------------------------ *)
(* Spec: the two transport threads and the GUI thread around the one   *)
(* decoder. Each thread step is atomic; the calls of process_data are  *)
(* taken one at a time.                                                *)
(* ------------------------------------------------------------------ *)
SerialPayload == <<257, 514, 771>>
BlePayload == <<4112, 8224, 12336>>
FrameKinds == {"spec", "device"}

WireFrame(kind, t) == IF kind = "spec" THEN SpecFrame(t) ELSE DeviceFrame(t, 0)
SerialFrame == WireFrame(env.kind, SerialPayload)
\* the notification: the leading bytes of the Bluetooth device's frame
BleFrame == SubSeq(WireFrame(env.kind, BlePayload), 1, MaxBleBytes)

\* env.ser, env.ble: the thread's position (closed, open, call) and the number
\* of bytes of its device's frame it has taken; env.queue: the status signals
\* queued for the GUI thread; env.clicks: the button clicks so far;
\* env.drops: bytes a gate discarded; env.gap: a byte was discarded since the
\* last call while a frame was in progress; env.resumed: the last call was the
\* first after such a gap
Init ==
  /\ ProgInit
  /\ UiInit
  /\ \E k \in FrameKinds :
       env = [kind |-> k,
              ser |-> [pc |-> "closed", i |-> 0],
              ble |-> [pc |-> "closed", i |-> 0],
              queue |-> <<>>, clicks |-> 0,
              drops |-> 0, gap |-> FALSE, resumed |-> FALSE]

\* serial_connect.py:86-90
SerialGatePasses ==
  is_receiving_data /\ (~is_ble_connected \/ (is_ble_connected /\ ~using_ble))

\* bluetooth.py:141-145
BleGatePasses ==
  is_receiving_data /\ (~is_serial_connected \/ (is_serial_connected /\ using_ble))

\* serial_connect.py:77-79: the port opens and the status signal is queued
SerialOpen ==
  /\ env.ser.pc = "closed"
  /\ env' = [env EXCEPT !.ser.pc = "open",
                        !.queue = Append(@, <<"serial", "green">>)]
  /\ UNCHANGED <<decoderVars, pipeVars, uiOutVars, histVars, flagVars>>

\* serial_connect.py:85-90: the gate on the next byte of the read buffer
SerialGate ==
  /\ env.ser.pc = "open"
  /\ env.ser.i < Len(SerialFrame)
  /\ env' = IF SerialGatePasses
            THEN [env EXCEPT !.ser.pc = "call"]
            ELSE [env EXCEPT !.ser.i = @ + 1, !.drops = @ + 1,
                             !.gap = @ \/ pc_rx_state # CESState_Init]
  /\ UNCHANGED <<decoderVars, pipeVars, uiOutVars, histVars, flagVars>>

\* serial_connect.py:88/90 and 98-101: the call; an exception out of it drops
\* the rest of the read buffer, queues "Serial error" and, the port being
\* reopened, "Serial connected"
SerialCall ==
  /\ env.ser.pc = "call"
  /\ \E ovf \in OverflowOutcomes : process_data(SerialFrame[env.ser.i + 1], ovf)
  /\ env' = IF last_call'.raised
            THEN [env EXCEPT !.ser = [pc |-> "open", i |-> Len(SerialFrame)],
                             !.queue = @ \o << <<"serial", "red">>,
                                                <<"serial", "green">> >>,
                             !.gap = FALSE, !.resumed = env.gap]
            ELSE [env EXCEPT !.ser = [pc |-> "open", i |-> env.ser.i + 1],
                             !.gap = FALSE, !.resumed = env.gap]
  /\ UNCHANGED flagVars

\* bluetooth.py:103-113: the client connects and the status signal is queued
BleConnect ==
  /\ env.ble.pc = "closed"
  /\ env' = [env EXCEPT !.ble.pc = "open",
                        !.queue = Append(@, <<"ble", "green">>)]
  /\ UNCHANGED <<decoderVars, pipeVars, uiOutVars, histVars, flagVars>>

\* bluetooth.py:140-145: the gate on the next byte of the notification
BleGate ==
  /\ env.ble.pc = "open"
  /\ env.ble.i < Len(BleFrame)
  /\ env' = IF BleGatePasses
            THEN [env EXCEPT !.ble.pc = "call"]
            ELSE [env EXCEPT !.ble.i = @ + 1, !.drops = @ + 1,
                             !.gap = @ \/ pc_rx_state # CESState_Init]
  /\ UNCHANGED <<decoderVars, pipeVars, uiOutVars, histVars, flagVars>>

\* bluetooth.py:143/145: the call; an exception out of it ends the handler and
\* the rest of the notification is lost
BleCall ==
  /\ env.ble.pc = "call"
  /\ \E ovf \in OverflowOutcomes : process_data(BleFrame[env.ble.i + 1], ovf)
  /\ env' = [env EXCEPT !.ble = [pc |-> "open",
                                 i |-> IF last_call'.raised THEN Len(BleFrame)
                                       ELSE env.ble.i + 1],
                        !.gap = FALSE, !.resumed = env.gap]
  /\ UNCHANGED flagVars

\* gui.py:421-426, run by the GUI thread for a queued serial_status_signal
update_serial_status ==
  /\ env.queue # <<>>
  /\ Head(env.queue)[1] = "serial"
  /\ is_serial_connected' = (Head(env.queue)[2] # "red")
  /\ env' = [env EXCEPT !.queue = Tail(@)]
  /\ UNCHANGED <<is_receiving_data, is_ble_connected, using_ble,
                 is_recording_data, resolution_bits,
                 gui_resolution_bits>>
  /\ UNCHANGED <<decoderVars, pipeVars, uiOutVars, histVars>>

\* gui.py:447-451, run by the GUI thread for a queued ble_status_signal
update_ble_status ==
  /\ env.queue # <<>>
  /\ Head(env.queue)[1] = "ble"
  /\ is_ble_connected' = (Head(env.queue)[2] # "red")
  /\ env' = [env EXCEPT !.queue = Tail(@)]
  /\ UNCHANGED <<is_receiving_data, is_serial_connected, using_ble,
                 is_recording_data, resolution_bits,
                 gui_resolution_bits>>
  /\ UNCHANGED <<decoderVars, pipeVars, uiOutVars, histVars>>

\* gui.py:476-477: the start/stop button
toggle_data_receiving ==
  /\ env.clicks < MaxUiEvents
  /\ is_receiving_data' = ~is_receiving_data
  /\ env' = [env EXCEPT !.clicks = @ + 1]
  /\ UNCHANGED <<is_serial_connected, is_ble_connected, using_ble,
                 is_recording_data, resolution_bits,
                 gui_resolution_bits>>
  /\ UNCHANGED <<decoderVars, pipeVars, uiOutVars, histVars>>

\* gui.py:713-718: the radio buttons, shown while both transports are
\* connected (gui.py:426-429, 452-455)
change_data_source(id) ==
  /\ env.clicks < MaxUiEvents
  /\ is_serial_connected /\ is_ble_connected
  /\ using_ble' = IF id = 1 THEN TRUE ELSE IF id = 2 THEN FALSE ELSE using_ble
  /\ env' = [env EXCEPT !.clicks = @ + 1]
  /\ UNCHANGED <<is_receiving_data, is_serial_connected, is_ble_connected,
                 is_recording_data, resolution_bits,
                 gui_resolution_bits>>
  /\ UNCHANGED <<decoderVars, pipeVars, uiOutVars, histVars>>

Next ==
  \/ SerialOpen
  \/ SerialGate
  \/ SerialCall
  \/ BleConnect
  \/ BleGate
  \/ BleCall
  \/ update_serial_status
  \/ update_ble_status
  \/ toggle_data_receiving
  \/ \E id \in {1, 2} : change_data_source(id)

Spec == Init /\ [][Next]_vars

(* C2 (as stated): in no reachable state have the serial reader thread and the
   Bluetooth notification handler both passed their per-byte gate, that is, are
   both inside the call of process_data. *)
C2_TransportExclusive == ~(env.ser.pc = "call" /\ env.ble.pc = "call")

(* C6 (as stated): when bytes are discarded while a frame is in progress and
   delivery resumes, the first byte delivered after the gap is processed from
   state Init. *)
C6_GapResumesFromInit == env.resumed => last_call.state = CESState_Init

(* C7 (as stated): with the calls of process_data taken one at a time and no
   byte discarded, whatever the interleaving of the serial and the Bluetooth
   bytes, every decoded triplet equals the payload of the serial frame or of
   the Bluetooth frame. *)
C7_FunnelNoCorruption ==
  env.drops = 0 =>
    \A k \in 1..Len(decoded) : decoded[k] \in {SerialPayload, BlePayload}

(* ------------------------------------------------------------------ *)
(* SpecQRS: the detector object fed one sample per update, the ECG     *)
(* being flat or carrying one spike per period                         *)
(* ------------------------------------------------------------------ *)
\* ECG waveforms: one sample of amplitude amp every period samples during the
\* first calibration window and of amplitude late after it, there followed 10
\* samples later by one of amplitude echo; else 0. A spike of 3200 moves the
\* 32-sample mean by 100 when it enters and when it leaves.
QrsWaves ==
  { [kind |-> "flat", period |-> 1, amp |-> 0, late |-> 0, echo |-> 0],
    [kind |-> "spikes", period |-> 100, amp |-> 3200, late |-> 3200, echo |-> 0],
    [kind |-> "spikes", period |-> 90, amp |-> 6400, late |-> 6400, echo |-> 0],
    [kind |-> "spikes", period |-> 20, amp |-> 3200, late |-> 3200, echo |-> 0],
    [kind |-> "grow", period |-> 100, amp |-> 3200, late |-> 6400, echo |-> 0],
    [kind |-> "decay", period |-> 100, amp |-> 6400, late |-> 3200, echo |-> 0],
    [kind |-> "echo", period |-> 100, amp |-> 3200, late |-> 3200, echo |-> 6400],
    [kind |-> "echo", period |-> 80, amp |-> 3200, late |-> 3200, echo |-> 6400],
    [kind |-> "grow", period |-> 100, amp |-> 0, late |-> 3200, echo |-> 0] }

QrsSample(w, n) ==
  IF n <= TWO_SEC_SAMPLES THEN (IF n % w.period = 0 THEN w.amp ELSE 0)
  ELSE IF n % w.period = 0 THEN w.late
  ELSE IF n % w.period = 10 THEN w.echo
  ELSE 0

QrsInit ==
  /\ ProgInit
  /\ UiInit
  /\ \E w \in QrsWaves : env = [wave |-> w, n |-> 1, latched |-> 0]

\* the update that comes takes the branch of lines 243-252
Latched(p) == p.first_peak_detected /\ ~p.threshold_crossed /\ p.peak_detected

\* one call ecg_processor.QRS_algorithm_interface(curr_sample)
QrsUpdate ==
  /\ env.n <= MaxQrsFrames
  /\ \E ovf \in OverflowOutcomes :
       ecg_processor' =
         QRS_algorithm_interface(ecg_processor, QrsSample(env.wave, env.n), ovf).p
  /\ qrs_calls' = qrs_calls + 1
  \* env.latched: the updates so far that found the detector latched, in a row
  /\ env' = [env EXCEPT !.n = @ + 1,
                        !.latched = IF Latched(ecg_processor) THEN @ + 1 ELSE 0]
  /\ UNCHANGED <<decoderVars, uiOutVars, flagVars, decoded, last_call>>
  /\ UNCHANGED <<ecg_value, ir_value, red_value, ecg_mV,
                 ecg_samples, ir_samples, red_samples, heart_rate>>

QrsNext == QrsUpdate

SpecQRS == QrsInit /\ [][QrsNext]_vars

\* the detector is about to compute the heart rate: four peaks are latched and
\* the search window of the fourth has closed (heartrate_algorithm.py:247-256)
FourthPeakLatched ==
  /\ ecg_processor.first_peak_detected
  /\ ~ecg_processor.threshold_crossed
  /\ ecg_processor.peak_detected
  /\ ecg_processor.m_array_index = MAX_PEAK_TO_SEARCH

\* min(250, 60 * 125 / (sample_sum / 3)) as a fraction
ExpectedHeartRate(sample_sum) ==
  IF 60 * SAMPLING_RATE * 3 > 250 * sample_sum THEN <<250, 1>>
  ELSE <<60 * SAMPLING_RATE * 3, sample_sum>>

SameFraction(a, b) == a[1] * b[2] = b[1] * a[2]

(* C11 (as stated): in the update that follows the latching of the fourth peak
   the detector's heart_rate, as the caller reads it when the update returns,
   equals min(250, 60*125/avgInterval), avgInterval the mean of the three
   recorded intervals. *)
C11_HeartRateReadable ==
  [][(qrs_calls' = qrs_calls + 1 /\ FourthPeakLatched) =>
       SameFraction(ecg_processor'.heart_rate,
                    ExpectedHeartRate(ecg_processor.sample_sum))]_vars

(* ------------------------------------------------------------------ *)
(* SpecVitals: accepted vitals frames whose IR/RED channels are flat,  *)
(* carry two short pulses 20 samples apart, or a slow periodic wave    *)
(* ------------------------------------------------------------------ *)
VitalWaves == {"flat", "bumps", "fast", "slow", "pulse"}

\* one pulse of five samples starting at sample c
BumpShape == <<120, 400, 250, 60, 10>>
Bump(n, c) == IF c <= n /\ n < c + Len(BumpShape) THEN BumpShape[n - c + 1] ELSE 0

\* two pulses: 20 samples apart (75 bpm), 10 apart (150 bpm), 25 apart (60 bpm)
BumpGap(w) == IF w = "fast" THEN 10 ELSE IF w = "slow" THEN 25 ELSE 20
Bumps(w, n) == Bump(n, 5) + Bump(n, 5 + BumpGap(w))

\* the n-th triplet of a waveform; the ECG value of frame 101 is above 32767
VitTriplet(w, n) ==
  << IF n = 101 THEN 40000 ELSE 100 * (n % 7),
     IF w = "flat" THEN 3000
     ELSE IF w = "pulse" THEN 3000 + WinWave(n) + n
     ELSE 3000 + Bumps(w, n),
     IF w = "flat" THEN 2000
     ELSE IF w = "pulse" THEN 2000 + (WinWave(n) \div 2) + n
     ELSE 2000 + Bumps(w, n) \div 2 >>

VitInit ==
  /\ ProgInit
  /\ UiInit
  /\ \E w \in VitalWaves : env = [wave |-> w, n |-> 1, i |-> 0]

VitFrame == DeviceFrame(VitTriplet(env.wave, env.n), 0)

VitFeed ==
  /\ env.n <= MaxVitalFrames
  /\ \E ovf \in OverflowOutcomes : process_data(VitFrame[env.i + 1], ovf)
  /\ env' = IF env.i + 1 = Len(VitFrame)
            THEN [env EXCEPT !.n = @ + 1, !.i = 0]
            ELSE [env EXCEPT !.i = @ + 1]
  /\ UNCHANGED flagVars

VitNext == VitFeed

SpecVitals == VitInit /\ [][VitNext]_vars

\* a heart rate was emitted in this step
HeartRateEmitted == Len(heart_rate_signal') = Len(heart_rate_signal) + 1

(* C12 (as stated): whenever a value is emitted on heart_rate_signal it is the
   heart rate of the QRS detector (ecg_processor.heart_rate) for the current
   sample. *)
C12_EmittedIsQrsRate ==
  [][HeartRateEmitted =>
       heart_rate_signal'[Len(heart_rate_signal')]
         = HeartRateText(ecg_processor'.heart_rate)]_vars

\* the call of this step decoded a triplet and ran to its end
CompletedDecodeStep == DecodeStep /\ ~last_call'.raised

\* both windows are full after this step
WindowsFullAfter ==
  Len(ir_samples') >= BUFFER_SIZE /\ Len(red_samples') >= BUFFER_SIZE

(* C13: every value emitted on heart_rate_signal is an integer in 60..140 and
   is emitted for an estimate inside [60, 140]; an estimate outside the band,
   the sentinel -999 included, is not emitted. *)
C13_OnlyBandEmitted ==
  [][/\ HeartRateEmitted =>
          /\ heart_rate_signal'[Len(heart_rate_signal')] \in 60..140
          /\ 60 * heart_rate'[2] <= heart_rate'[1]
          /\ heart_rate'[1] <= 140 * heart_rate'[2]
          /\ heart_rate_signal'[Len(heart_rate_signal')] = HeartRateText(heart_rate')
     /\ ~HeartRateEmitted => heart_rate_signal' = heart_rate_signal
     /\ (CompletedDecodeStep /\ WindowsFullAfter
           /\ (heart_rate'[1] < 60 * heart_rate'[2]
                 \/ heart_rate'[1] > 140 * heart_rate'[2]))
          => ~HeartRateEmitted]_vars

\* 75 was emitted earlier and the sentinel of a later window was suppressed
C13_Witness ==
  /\ env.wave = "bumps"
  /\ heart_rate_signal # <<>>
  /\ \A k \in 1..Len(heart_rate_signal) : heart_rate_signal[k] = 75
  /\ heart_rate = <<-999, 1>>
  /\ Len(spo2_update_signal) > Len(heart_rate_signal)

(* C16: when a completed call finds fewer than 2 valleys in the full window,
   the estimate is (None, -999), no heart rate is emitted, the SpO2 update
   carries N/A (None), and the decoder is back in Init with its data counter
   zeroed, ready for the next frame. *)
C16_TooFewValleys ==
  [][(CompletedDecodeStep /\ WindowsFullAfter /\ Len(ValleyLocs(ir_samples')) < 2) =>
       /\ heart_rate' = <<-999, 1>>
       /\ heart_rate_signal' = heart_rate_signal
       /\ spo2_update_signal' = Append(spo2_update_signal, None)
       /\ pc_rx_state' = CESState_Init
       /\ CES_Data_Counter' = 0]_vars

\* flat windows: several N/A updates in a row, frames still being decoded
C16_Witness ==
  /\ env.wave = "flat"
  /\ Len(decoded) = 103
  /\ heart_rate = <<-999, 1>>
  /\ heart_rate_signal = <<>>
  /\ Len(spo2_update_signal) >= 3
  /\ \A k \in 1..Len(spo2_update_signal) : spo2_update_signal[k] = None

(* C17 (as stated): no SpO2 update and no heart rate is emitted before 100
   triplets have been decoded, and from the 100th on every decoded triplet
   causes exactly one SpO2 update. *)
C17_OneUpdatePerTriplet ==
  [][/\ Len(decoded') < BUFFER_SIZE =>
          spo2_update_signal' = <<>> /\ heart_rate_signal' = <<>>
     /\ (DecodeStep /\ Len(decoded') >= BUFFER_SIZE) =>
          Len(spo2_update_signal') = Len(spo2_update_signal) + 1]_vars

(* ------------------------------------------------------------------ *)
(* The silence reset of the QRS detector, checked under SpecQRS        *)
(* ------------------------------------------------------------------ *)
\* A detector step in which a calibrated detector counts its
\* (3*SAMPLING_RATE + 1)-th sample without a peak and reset_variables runs
SilenceResetStep ==
  /\ qrs_calls' = qrs_calls + 1
  /\ ecg_processor.first_peak_detected
  /\ ecg_processor.nopeak_count = 3 * SAMPLING_RATE
  /\ ecg_processor'.nopeak_count = 0

\* C14: the silence reset after calibration returns the detector to the
\* uncalibrated state: the calibrated flag is false and the counters are
\* zero, so no threshold test happens before a new calibration window ends.
C14_SilenceResetUncalibrates ==
  [][SilenceResetStep =>
       /\ ~ecg_processor'.first_peak_detected
       /\ ecg_processor'.sample_count = 0
       /\ ecg_processor'.nopeak_count = 0
       /\ ecg_processor'.qrs_b4_buffer_ptr = 0]_vars

(* ------------------------------------------------------------------ *)
(* The table lookup of estimate_spo2 on its own: one truncated median  *)
(* ratio is drawn, then looked up                                      *)
(* ------------------------------------------------------------------ *)
MaxRatio == 200

\* n_ratio_average: int() of a ratio whose numerator may have either sign
RatioInputs == (0 - MaxRatio)..MaxRatio

\* a valid index of a NumPy array of length n: -n .. n-1
InArrayBounds(k, n) == (0 - n) <= k /\ k < n

LookupInit ==
  /\ ProgInit
  /\ UiInit
  /\ \E r \in RatioInputs : env = [r |-> r, looked_up |-> FALSE, pn_spo2 |-> None]

LookupCall ==
  /\ ~env.looked_up
  /\ env' = [env EXCEPT !.looked_up = TRUE, !.pn_spo2 = LookupSpo2(env.r)]
  /\ UNCHANGED <<decoderVars, pipeVars, uiOutVars, histVars, flagVars>>

LookupNext == LookupCall

SpecLookup == LookupInit /\ [][LookupNext]_vars

\* C15: a truncated median ratio r <= 2 or r >= 183 (r = 2 and r = 183
\* included) gives None; every r in 3..182 gives uch_spo2_table[r], and
\* that index is inside the bounds of the table.
C15_LookupBoundary ==
  env.looked_up =>
    /\ (env.r <= 2 \/ env.r >= 183) => env.pn_spo2 = None
    /\ (3 <= env.r /\ env.r <= 182) =>
         /\ InArrayBounds(env.r, Len(uch_spo2_table))
         /\ env.pn_spo2 = Some(uch_spo2_table[env.r + 1])

C15_Witness ==
  /\ env.looked_up
  /\ env.r = 182
  /\ env.pn_spo2 = Some(uch_spo2_table[Len(uch_spo2_table)])

(* ------------------------------------------------------------------ *)
(* The FIR output stage (ecg_filter_process) on its own: one           *)
(* accumulator value is drawn, then saturated, shifted and converted   *)
(* ------------------------------------------------------------------ *)
MaxAccSteps == 254
AccStep == 8388608

\* int(acc): multiples of 2^23 and their neighbours, which include both
\* saturation limits 0x3fffffff = 128*2^23 - 1 and -0x40000000 = -128*2^23
AccInputs ==
  { k * AccStep + d : k \in (0 - MaxAccSteps)..MaxAccSteps, d \in {-1, 0, 1} }

\* the accumulator passed on unsaturated
Saturate_None(acc) == acc

\* acc = max(min(acc, 0x3fffffff), -0x40000000)
Saturate(acc) ==
  LET low == IF acc < 1073741823 THEN acc ELSE 1073741823
  IN IF low > -1073741824 THEN low ELSE -1073741824

\* Python's acc >> 15 on an int: floor division by 2^15
ShiftRight15(acc) == acc \div 32768

\* np.int16(v) of a Python int: out of range it wraps or raises, by NumPy version
ToInt16(v, ovf) ==
  IF Int16Fits(v) THEN [value |-> Some(v), raised |-> FALSE]
  ELSE IF ovf = "raise" THEN [value |-> None, raised |-> TRUE]
  ELSE [value |-> Some(Int16Wrap(v)), raised |-> FALSE]

\* ecg_filter_process from the accumulator on
ecg_filter_process(acc, ovf) == ToInt16(ShiftRight15(Saturate(acc)), ovf)

FirInit ==
  /\ ProgInit
  /\ UiInit
  /\ \E acc \in AccInputs :
       env = [acc |-> acc, returned |-> FALSE, filter_out |-> None, raised |-> FALSE]

FirCall ==
  /\ ~env.returned
  /\ \E ovf \in OverflowOutcomes :
       LET res == ecg_filter_process(env.acc, ovf)
       IN env' = [env EXCEPT !.returned = TRUE, !.filter_out = res.value,
                             !.raised = res.raised]
  /\ UNCHANGED <<decoderVars, pipeVars, uiOutVars, histVars, flagVars>>

FirNext == FirCall

SpecFir == FirInit /\ [][FirNext]_vars

\* the accumulator limited to -0x40000000 .. 0x3fffffff
ClampedAcc ==
  IF env.acc > 1073741823 THEN 1073741823
  ELSE IF env.acc < -1073741824 THEN -1073741824 ELSE env.acc

\* C18: the output is the accumulator clamped to -0x40000000..0x3fffffff and
\* arithmetically shifted right by 15; above the upper limit it is 32767,
\* below the lower limit -32768 (clamped, not wrapped), and it always fits
\* a signed 16-bit integer.
C18_FirSaturates ==
  env.returned =>
    /\ ~env.raised
    /\ env.filter_out # None
    /\ Int16Fits(env.filter_out[1])
    /\ env.filter_out[1] * 32768 <= ClampedAcc
    /\ ClampedAcc - env.filter_out[1] * 32768 < 32768
    /\ env.acc > 1073741823 => env.filter_out[1] = 32767
    /\ env.acc < -1073741824 => env.filter_out[1] = -32768

C18_Witness ==
  /\ env.returned
  /\ env.acc = 1073741824
  /\ env.filter_out = Some(32767)

(* ------------------------------------------------------------------ *)
(* SpecAdc: vitals frames decoded while the user clicks the ADC        *)
(* resolution radio buttons                                            *)
(* ------------------------------------------------------------------ *)
MaxAdcFrames == 3
MaxAdcClicks == 2

\* the ids of the two radio buttons (gui.py:342-343)
AdcButtonIds == {18, 19}

\* gui.py:606-609: the assignment goes to the module-level name
change_adc_bits(adc_bits) ==
  /\ gui_resolution_bits' = Some(adc_bits)
  /\ UNCHANGED <<is_receiving_data, is_serial_connected, is_ble_connected,
                 using_ble, is_recording_data, resolution_bits>>
  /\ UNCHANGED <<decoderVars, pipeVars, uiOutVars, histVars>>

AdcTriplet(n) == <<n % 3, 3000 + n, 2000 + n>>
AdcFrame == DeviceFrame(AdcTriplet(env.n), 0)

AdcInit ==
  /\ ProgInit
  /\ UiInit
  /\ env = [n |-> 1, i |-> 0, clicks |-> 0]

AdcFeed ==
  /\ env.n <= MaxAdcFrames
  /\ \E ovf \in OverflowOutcomes : process_data(AdcFrame[env.i + 1], ovf)
  /\ env' = IF env.i + 1 = Len(AdcFrame)
            THEN [env EXCEPT !.n = @ + 1, !.i = 0]
            ELSE [env EXCEPT !.i = @ + 1]
  /\ UNCHANGED flagVars

\* gui.py:346: buttonClicked[int] delivers the id of the clicked button
AdcClick ==
  /\ env.clicks < MaxAdcClicks
  /\ \E b \in AdcButtonIds : change_adc_bits(b)
  /\ env' = [env EXCEPT !.clicks = @ + 1]

AdcNext == AdcFeed \/ AdcClick

SpecAdc == AdcInit /\ [][AdcNext]_vars

\* C19: after change_adc_bits(b), b in {18, 19}, every ECG sample decoded
\* from then on is converted to millivolts with resolution_bits = b.
C19_ConversionUsesChosenBits ==
  [][(DecodeStep /\ gui_resolution_bits # None) =>
       SameFraction(ecg_mV', adc_to_voltage(ecg_value', gui_resolution_bits[1]))]_vars

(* ------------------------------------------------------------------ *)
(* SpecPure: estimate_spo2 called repeatedly on buffers the caller     *)
(* keeps; env.ir and env.red are those buffers, env.calls the          *)
(* arguments and result of every call made so far                      *)
(* ------------------------------------------------------------------ *)
MaxPureCalls == 3
PureLen == 40

PureIr(w) == [n \in 1..PureLen |-> VitTriplet(w, n)[2]]
PureRed(w) == [n \in 1..PureLen |-> VitTriplet(w, n)[3]]

\* the caller's IR buffer after a call, had lines 49-50 written through to
\* it: the smoothed values, truncated to integers
IrAfterCall_WrittenThrough(pun_ir_buffer) ==
  [k \in 1..Len(pun_ir_buffer) |->
     TruncDiv(SmoothedIr(pun_ir_buffer)[k - 1], MA4_SIZE * Len(pun_ir_buffer))]

\* the caller's IR buffer after a call. Line 46 binds an_x to a new array,
\* which is what the loop of lines 49-50 writes; line 68 rebinds an_x to the
\* argument and only reads it from there on.
IrAfterCall(pun_ir_buffer) == pun_ir_buffer

PureInit ==
  /\ ProgInit
  /\ UiInit
  /\ env = [ir |-> [w \in VitalWaves |-> PureIr(w)],
            red |-> [w \in VitalWaves |-> PureRed(w)],
            calls |-> <<>>]

PureCall ==
  /\ Len(env.calls) < MaxPureCalls
  /\ \E w \in VitalWaves :
       env' = [env EXCEPT
                 !.ir[w] = IrAfterCall(env.ir[w]),
                 !.calls = Append(@, [ir |-> env.ir[w], red |-> env.red[w],
                                      result |-> estimate_spo2(env.ir[w], env.red[w])])]
  /\ UNCHANGED <<decoderVars, pipeVars, uiOutVars, histVars, flagVars>>

PureNext == PureCall

SpecPure == PureInit /\ [][PureNext]_vars

MaxDecBytes == 9

\* the two start bytes, the stop byte, and bytes that serve as length,
\* packet type and payload
ByteMenu == {CES_CMDIF_PKT_START_1, CES_CMDIF_PKT_START_2, CES_CMDIF_PKT_STOP, 0, 1, 2}

BytesInit ==
  /\ ProgInit
  /\ UiInit
  /\ env = [n |-> 0]

BytesFeed ==
  /\ env.n < MaxDecBytes
  /\ \E rx_char \in ByteMenu : \E ovf \in OverflowOutcomes : process_data(rx_char, ovf)
  /\ env' = [env EXCEPT !.n = @ + 1]
  /\ UNCHANGED flagVars

BytesNext == BytesFeed

SpecBytes == BytesInit /\ [][BytesNext]_vars

\* C22: in Init the decoder leaves Init only on 0x0A (to Sof1Found) and stays
\* in Init on every other byte; in Sof1Found it moves to Sof2Found only on
\* 0xFA and returns to Init on every other byte, a repeated 0x0A included.
C22_StartSequence ==
  [][/\ pc_rx_state = CESState_Init =>
          pc_rx_state' = IF last_call'.rx = CES_CMDIF_PKT_START_1
                         THEN CESState_SOF1_Found ELSE CESState_Init
     /\ pc_rx_state = CESState_SOF1_Found =>
          pc_rx_state' = IF last_call'.rx = CES_CMDIF_PKT_START_2
                         THEN CESState_SOF2_Found ELSE CESState_Init]_vars

C22_Witness ==
  /\ last_call.state = CESState_SOF1_Found
  /\ last_call.rx = CES_CMDIF_PKT_START_1
  /\ pc_rx_state = CESState_Init

\* bytes consumed since the length low byte of the frame being read
BytesSinceLenLow == CES_Pkt_Pos_Counter - CES_CMDIF_IND_LEN

\* C23: once the length low byte has been consumed the decoder is back in
\* Init after at most L + 5 further bytes, L the declared length, whatever
\* the bytes are: it is never in HeaderOrBody with L + 5 or more bytes of
\* the frame consumed, and never in a state other than the four.
C23_SelfHealing ==
  /\ pc_rx_state \in {CESState_Init, CESState_SOF1_Found, CESState_SOF2_Found,
                      CESState_PktLen_Found}
  /\ (pc_rx_state = CESState_PktLen_Found
        /\ CES_Pkt_Pos_Counter >= CES_CMDIF_IND_LEN_MSB)
       => BytesSinceLenLow < CES_Pkt_Len + 5

\* the call in this step consumed 0x0B in the stop position
AcceptedStopStep == AtStopStep /\ last_call'.rx = CES_CMDIF_PKT_STOP

\* C24: a byte that is not an accepted stop byte changes only the decoder's
\* own variables: the sample windows, the QRS detector and every emitted
\* output stay as they were; a byte other than 0x0B in the stop position
\* emits nothing and sets the state to Init.
C24_OnlyDecoderChanges ==
  [][~AcceptedStopStep =>
       /\ UNCHANGED <<pipeVars, uiOutVars, decoded, qrs_calls>>
       /\ AtStopStep => pc_rx_state' = CESState_Init]_vars

C24_Witness ==
  /\ last_call.at_stop
  /\ last_call.rx # CES_CMDIF_PKT_STOP
  /\ last_call.dcount > 0
  /\ pc_rx_state = CESState_Init
  /\ decoded = <<>>
  /\ add_data_log = <<>>

(* ------------------------------------------------------------------ *)
(* SpecLong: one frame of a chosen declared length and packet type fed *)
(* to a fresh decoder, header first, then L + 2 further bytes          *)
(* ------------------------------------------------------------------ *)
LongLengths == {0, 1, 5, 6, 7, 8, 255, 256, 300}
LongTypes == {1, 2, 3}

\* the bytes after the header: all 0x0B, or all different from the framing bytes
LongFills == {"stop", "count"}
LongByte(fill, k) == IF fill = "stop" THEN CES_CMDIF_PKT_STOP ELSE 16 + (k % 200)

LongFrameLen(L) == CES_CMDIF_PKT_OVERHEAD + L + 2

LongFrameByte(f, i) ==
  IF i <= CES_CMDIF_PKT_OVERHEAD THEN Header(f.L, f.type)[i]
  ELSE LongByte(f.fill, i - CES_CMDIF_PKT_OVERHEAD)

LongInit ==
  /\ ProgInit
  /\ UiInit
  /\ \E L \in LongLengths : \E t \in LongTypes : \E fill \in LongFills :
       env = [L |-> L, type |-> t, fill |-> fill, i |-> 0]

LongFeed ==
  /\ env.i < LongFrameLen(env.L)
  /\ \E ovf \in OverflowOutcomes : process_data(LongFrameByte(env, env.i + 1), ovf)
  /\ env' = [env EXCEPT !.i = @ + 1]
  /\ UNCHANGED flagVars

LongNext == LongFeed

SpecLong == LongInit /\ [][LongNext]_vars

\* the byte of this step was handled as payload: not compared with the stop
\* byte, stored if the packet type is 2 and a slot is free
TreatedAsPayload ==
  /\ pc_rx_state' = CESState_PktLen_Found
  /\ ~DecodeStep
  /\ IF CES_Pkt_PktType = 2 /\ CES_Data_Counter < 6
     THEN /\ CES_Data_Counter' = CES_Data_Counter + 1
          /\ CES_Pkt_Data_Counter'[CES_Data_Counter'] = last_call'.rx
     ELSE UNCHANGED <<CES_Data_Counter, CES_Pkt_Data_Counter>>

\* the byte of this step was compared with the stop byte
ComparedWithStop ==
  /\ DecodeStep <=> last_call'.rx = CES_CMDIF_PKT_STOP
  /\ pc_rx_state' = CESState_Init \/ last_call'.raised

\* a step of the decoder in HeaderOrBody that consumes the byte at position p
AtPosition(p) ==
  /\ pc_rx_state = CESState_PktLen_Found
  /\ CES_Pkt_Pos_Counter' = p
  /\ CES_Pkt_Pos_Counter = p - 1

\* C21 (as stated): with declared length L the bytes at positions 5..4+L are
\* payload and the byte at position 5+L is compared with the stop byte.
C21_StopAtFivePlusL ==
  [][\A p \in CES_CMDIF_PKT_OVERHEAD..(CES_CMDIF_PKT_OVERHEAD + CES_Pkt_Len) :
       AtPosition(p) =>
         IF p < CES_CMDIF_PKT_OVERHEAD + CES_Pkt_Len THEN TreatedAsPayload
         ELSE ComparedWithStop]_vars

\* C21 (amended): with declared length L the bytes at positions 5..5+L are
\* payload and the byte at position 6+L is compared with the stop byte, for
\* every L and every packet type.
C21_StopAtSixPlusL ==
  [][\A p \in CES_CMDIF_PKT_OVERHEAD..(CES_CMDIF_PKT_OVERHEAD + CES_Pkt_Len + 1) :
       AtPosition(p) =>
         IF p <= CES_CMDIF_PKT_OVERHEAD + CES_Pkt_Len THEN TreatedAsPayload
         ELSE ComparedWithStop]_vars

C21_Witness ==
  /\ env.L = 300 /\ env.type = 3 /\ env.fill = "stop"
  /\ last_call.at_stop
  /\ last_call.pos = CES_CMDIF_PKT_OVERHEAD + 300
  /\ Len(decoded) = 1
  /\ pc_rx_state = CESState_Init

\* a step that consumes a byte in a payload position
PayloadStep ==
  /\ pc_rx_state = CESState_PktLen_Found
  /\ CES_Pkt_Pos_Counter' = CES_Pkt_Pos_Counter + 1
  /\ InPayloadRange(CES_Pkt_Pos_Counter', CES_Pkt_Len)

\* C25: the payload buffer has 6 slots and the data counter never exceeds 6;
\* a payload byte that arrives when 6 are stored advances the position
\* counter and is not stored, and no write lands outside the 6 slots.
C25_SixSlots ==
  [][/\ CES_Data_Counter' <= 6
     /\ DOMAIN CES_Pkt_Data_Counter' = 1..6
     /\ (PayloadStep /\ CES_Data_Counter = 6) =>
          /\ CES_Pkt_Pos_Counter' = CES_Pkt_Pos_Counter + 1
          /\ UNCHANGED <<CES_Pkt_Data_Counter, CES_Data_Counter>>]_vars

C25_Witness ==
  /\ env.L = 300 /\ env.type = 2 /\ env.fill = "count"
  /\ pc_rx_state = CESState_PktLen_Found
  /\ CES_Pkt_Pos_Counter = CES_CMDIF_PKT_OVERHEAD + 300
  /\ CES_Data_Counter = 6
  /\ CES_Pkt_Data_Counter = <<17, 18, 19, 20, 21, 22>>

(* ------------------------------------------------------------------ *)
(* The calibration window, the search window and the latch of the QRS  *)
(* detector, checked under SpecQRS                                     *)
(* ------------------------------------------------------------------ *)
\* lines 179-184: int(mean) of the last 32 samples of wave w after sample n,
\* zeros standing for the samples before the first
SmoothedAt(w, n) ==
  IF n < 1 THEN 0
  ELSE TruncDiv(SumSeq([j \in 1..PREV_DATA_LEN |->
                          IF n - j + 1 >= 1 THEN QrsSample(w, n - j + 1) ELSE 0]),
                PREV_DATA_LEN)

\* lines 196-202: the derivative the detector computes in update n, from the
\* two oldest entries of its five-sample pipeline
DerivativeAt(w, n) == Abs(SmoothedAt(w, n - 4) - SmoothedAt(w, n - 3))

\* the largest derivative of the calibration window that ends with update n
WindowMax(w, n) ==
  SeqMax([k \in 1..TWO_SEC_SAMPLES |-> DerivativeAt(w, n - TWO_SEC_SAMPLES + k)])

\* the update that feeds the 250th sample of a calibration window
CalibrationStep ==
  /\ qrs_calls' = qrs_calls + 1
  /\ ecg_processor.qrs_b4_buffer_ptr = TWO_SEC_SAMPLES - 1

\* the update that comes computes the heart rate (lines 251-252)
HeartRateDue(p) == Latched(p) /\ p.m_array_index = MAX_PEAK_TO_SEARCH

\* C26: at the 250th sample of each calibration window thresholdOld and
\* thresholdNew become floor(0.7 * maxDerivative), maxDerivative the largest
\* derivative of that window, the detector is calibrated, and the window
\* counter and maxDerivative are 0 again. (A heart-rate computation in the
\* same update then sets thresholdNew as C30 says.)
C26_Calibration ==
  [][CalibrationStep =>
       /\ 10 * ecg_processor'.qrs_threshold_old <= 7 * WindowMax(env.wave, env.n)
       /\ 7 * WindowMax(env.wave, env.n) < 10 * (ecg_processor'.qrs_threshold_old + 1)
       /\ \/ ecg_processor'.qrs_threshold_new = ecg_processor'.qrs_threshold_old
          \/ HeartRateDue(ecg_processor)
       /\ ecg_processor'.first_peak_detected
       /\ ecg_processor'.qrs_b4_buffer_ptr = 0
       /\ ecg_processor'.max = 0]_vars

C26_Witness ==
  /\ env.wave.kind = "decay"
  /\ env.n = 2 * TWO_SEC_SAMPLES + 1
  /\ ecg_processor.qrs_threshold_old = 70
  /\ ecg_processor.qrs_threshold_new = 70
  /\ ecg_processor.first_peak_detected
  /\ ecg_processor.qrs_b4_buffer_ptr = 0
  /\ ecg_processor.max = 0

\* a detection cycle is under way: a crossing has been recorded since the
\* last reset (line 255 sets the flag, reset_variables clears it)
InDetectionCycle(p) == p.first_peak_detected /\ p.start_sample_count_flag

\* C27: from the first recorded crossing of a detection cycle until the cycle
\* ends (heart-rate computation or silence reset) thresholdNew keeps its
\* value.
C27_ThresholdKept ==
  [][(InDetectionCycle(ecg_processor) /\ InDetectionCycle(ecg_processor'))
       => ecg_processor'.qrs_threshold_new = ecg_processor.qrs_threshold_new]_vars

\* the derivative the detector computed in the update of this step
StepDerivative == Abs(ecg_processor'.qrs_samples[5] - ecg_processor'.qrs_samples[4])

\* the detector is in the branch of lines 230-241 when the update comes
Searching(p) == p.first_peak_detected /\ p.threshold_crossed

\* this update recorded a crossing (lines 254-266)
CrossingStep ==
  /\ qrs_calls' = qrs_calls + 1
  /\ ~ecg_processor.threshold_crossed
  /\ ecg_processor'.threshold_crossed

\* C28: after a crossing the detector is searching for exactly 50 further
\* samples, peak being the largest derivative of the crossing sample and
\* those samples; on the 50th it adds peak to the peak sum, stops searching
\* and is latched; no crossing is recorded while it searches.
C28_SearchWindow ==
  [][/\ CrossingStep =>
          /\ ecg_processor'.maxima_search = 0
          /\ ecg_processor'.peak = StepDerivative
     /\ (qrs_calls' = qrs_calls + 1 /\ Searching(ecg_processor)) =>
          /\ ecg_processor'.peak = IF StepDerivative > ecg_processor.peak
                                   THEN StepDerivative ELSE ecg_processor.peak
          /\ ecg_processor'.m_array_index = ecg_processor.m_array_index
          /\ ecg_processor'.s_array_index = ecg_processor.s_array_index
          /\ ecg_processor'.sample_index = ecg_processor.sample_index
          /\ IF ecg_processor.maxima_search + 1 = MAXIMA_SEARCH_WINDOW
             THEN /\ ~ecg_processor'.threshold_crossed
                  /\ ecg_processor'.peak_detected
                  /\ ecg_processor'.maxima_sum =
                       ecg_processor.maxima_sum + ecg_processor'.peak
                  /\ ecg_processor'.maxima_search = 0
             ELSE /\ ecg_processor.maxima_search + 1 < MAXIMA_SEARCH_WINDOW
                  /\ ecg_processor'.threshold_crossed
                  /\ ~ecg_processor'.peak_detected
                  /\ ecg_processor'.maxima_sum = ecg_processor.maxima_sum
                  /\ ecg_processor'.maxima_search = ecg_processor.maxima_search + 1]_vars

\* the search that began with a derivative of 100 ended with the peak 200
C28_Witness ==
  /\ env.wave.kind = "echo"
  /\ Latched(ecg_processor)
  /\ env.latched = 0
  /\ ecg_processor.m_array_index = 1
  /\ ecg_processor.peak = 200
  /\ ecg_processor.maxima_sum = 200
  /\ ecg_processor.sample_count = 1 + MAXIMA_SEARCH_WINDOW

\* C29: once a peak's search has ended the detector stays latched for the
\* 30-sample minimum skip window: the latch is cleared on the 30th latched
\* sample, neither earlier nor later, unless the heart-rate computation ends
\* the cycle first; no crossing is recorded meanwhile.
C29_LatchThirtySamples ==
  [][(qrs_calls' = qrs_calls + 1 /\ Latched(ecg_processor)
       /\ ~HeartRateDue(ecg_processor)) =>
       /\ ~ecg_processor'.threshold_crossed
       /\ ecg_processor'.peak_detected <=> (env.latched + 1 # MINIMUM_SKIP_WINDOW)]_vars

\* this update computes the heart rate
HeartRateStep == qrs_calls' = qrs_calls + 1 /\ HeartRateDue(ecg_processor)

\* C30: when the heart rate is computed thresholdNew becomes
\* floor(0.7 * floor(peakSum / 4)), peakSum the sum of the four peak maxima of
\* the cycle; the detector stays calibrated and its cycle counters (sample
\* count, timestamp list and index, peak count, interval sum, peak sum,
\* no-peak count) are zero.
C30_DetectionReset ==
  [][HeartRateStep =>
       LET avg == ecg_processor.maxima_sum \div 4
           thr == ecg_processor'.qrs_threshold_new
       IN /\ 4 * avg <= ecg_processor.maxima_sum
          /\ ecg_processor.maxima_sum < 4 * (avg + 1)
          /\ 10 * thr <= 7 * avg /\ 7 * avg < 10 * (thr + 1)
          /\ ecg_processor'.first_peak_detected
          /\ ecg_processor'.sample_count = 0
          /\ ecg_processor'.sample_index = Zeros(MAX_PEAK_TO_SEARCH + 2)
          /\ ecg_processor'.s_array_index = 0
          /\ ecg_processor'.m_array_index = 0
          /\ ecg_processor'.sample_sum = 0
          /\ ecg_processor'.maxima_sum = 0
          /\ ecg_processor'.nopeak_count = 0]_vars

\* the state right after a computation from the peak sum 700: thresholdNew
\* went from the calibrated 140 to floor(0.7 * 175) = 122
C30_Witness ==
  /\ env.wave.kind = "echo" /\ env.wave.period = 80
  /\ ecg_processor.qrs_threshold_new = 122
  /\ ecg_processor.qrs_threshold_old = 140
  /\ ecg_processor.first_peak_detected
  /\ ~ecg_processor.start_sample_count_flag
  /\ ecg_processor.sample_count = 0
  /\ ecg_processor.m_array_index = 0
  /\ ecg_processor.maxima_sum = 0

(* ------------------------------------------------------------------ *)
(* The sample counter, the derivative and the peak counters of the QRS *)
(* detector, checked under SpecQRS                                     *)
(* ------------------------------------------------------------------ *)
\* one call of QRS_algorithm_interface
QrsStep == qrs_calls' = qrs_calls + 1

\* C31 (as stated): from the first crossing of a detection cycle until the
\* cycle ends the sample counter advances by exactly one on every update,
\* whatever the derivative is (above, below or equal to thresholdNew).
C31_CounterAdvances ==
  [][(/\ QrsStep
      /\ ecg_processor.start_sample_count_flag
      /\ ecg_processor'.start_sample_count_flag)
       => ecg_processor'.sample_count = ecg_processor.sample_count + 1]_vars

\* C32 (as stated): on every update the derivative the detector uses is
\* |curr - prev|, curr the smoothed sample this update supplied and prev the
\* one the preceding update supplied: it is what the running maximum takes in
\* (between calibrations) and what a crossing starts its peak with.
C32_DerivativeOfLatestTwo ==
  [][QrsStep =>
       LET derivative == Abs(ecg_processor'.qrs_samples[1]
                             - ecg_processor'.qrs_samples[2])
       IN /\ ~CalibrationStep =>
               ecg_processor'.max = IF derivative > ecg_processor.max
                                    THEN derivative ELSE ecg_processor.max
          /\ CrossingStep => ecg_processor'.peak = derivative]_vars

(* ------------------------------------------------------------------ *)
(* The 32-slot window of raw ECG values, checked under SpecRT          *)
(* ------------------------------------------------------------------ *)
\* int(mean) of the last 32 raw ECG values decoded, zeros standing for the
\* values not yet received
RawEcgMean ==
  TruncDiv(SumSeq(RecentDecoded(1, Min(Len(decoded), PREV_DATA_LEN))),
           PREV_DATA_LEN)

\* C33 (as stated): for every decoded raw ECG value in 0..65535 the window
\* stores the value unchanged and the sample fed to the QRS detector is the
\* integer-truncated mean of the last 32 raw ECG values.
C33_RawValueStored ==
  [][DecodeStep =>
       /\ ~last_call'.raised
       /\ ecg_processor'.prev_data[1] = ecg_value'
       /\ ecg_processor'.qrs_samples[1] = RawEcgMean']_vars

\* C34: until 250 samples have been processed since construction no sample is
\* tested against the threshold: the detector is not calibrated, no peak is
\* begun, no heart rate is computed, and searching, latched, the cycle
\* counters and both thresholds keep their initial values.
C34_NoTestBeforeCalibration ==
  qrs_calls < TWO_SEC_SAMPLES =>
    /\ ~ecg_processor.first_peak_detected
    /\ ~ecg_processor.threshold_crossed
    /\ ~ecg_processor.peak_detected
    /\ ~ecg_processor.start_sample_count_flag
    /\ ecg_processor.qrs_threshold_old = 0
    /\ ecg_processor.qrs_threshold_new = 0
    /\ ecg_processor.sample_count = 0
    /\ ecg_processor.nopeak_count = 0
    /\ ecg_processor.maxima_search = 0
    /\ ecg_processor.maxima_sum = 0
    /\ ecg_processor.sample_sum = 0
    /\ ecg_processor.m_array_index = 0
    /\ ecg_processor.s_array_index = 0
    /\ ecg_processor.sample_index = Zeros(MAX_PEAK_TO_SEARCH + 2)
    /\ ecg_processor.heart_rate = <<0, 1>>
    /\ ecg_processor.qrs_b4_buffer_ptr = qrs_calls

\* 249 samples processed, two of them with derivative 100
C34_Witness ==
  /\ qrs_calls = TWO_SEC_SAMPLES - 1
  /\ ecg_processor.max = 100
  /\ ecg_processor.qrs_threshold_new = 0
  /\ ~ecg_processor.threshold_crossed

\* this update ran calculate_heart_rate: the detector was latched and the
\* cycle ended (in the branch of lines 243-252 only line 252 resets)
HeartRateComputed ==
  /\ QrsStep
  /\ Latched(ecg_processor)
  /\ ecg_processor.start_sample_count_flag
  /\ ~ecg_processor'.start_sample_count_flag

\* C35: whenever the heart rate is computed exactly 4 timestamps have been
\* recorded in the cycle, the interval sum is strictly positive (no division
\* by zero), and the computed rate is greater than 0 and at most 250.
C35_HeartRateDefined ==
  [][HeartRateComputed =>
       LET hr == HeartRateOf(ecg_processor.sample_sum) IN
       /\ ecg_processor.s_array_index = MAX_PEAK_TO_SEARCH
       /\ ecg_processor.m_array_index = MAX_PEAK_TO_SEARCH
       /\ \A k \in 1..MAX_PEAK_TO_SEARCH : ecg_processor.sample_index[k] > 0
       /\ ecg_processor.sample_sum > 0
       /\ ecg_processor.sample_sum =
            ecg_processor.sample_index[MAX_PEAK_TO_SEARCH]
            - ecg_processor.sample_index[1]
       /\ hr[2] > 0 /\ hr[1] > 0 /\ hr[1] <= 250 * hr[2]]_vars

\* the heart rate is about to be computed from three intervals of 100 samples
C35_Witness ==
  /\ HeartRateDue(ecg_processor)
  /\ ecg_processor.s_array_index = MAX_PEAK_TO_SEARCH
  /\ ecg_processor.sample_sum = 300

\* C36: in every reachable detector state searching (threshold_crossed) and
\* latched (peak_detected) are never both true, the number of recorded
\* timestamps (s_array_index) equals the number of begun peaks (m_array_index)
\* and never exceeds 4, so every write sample_index[s_array_index] is within
\* the bounds of the list.
C36_PeakCounters ==
  /\ ~(ecg_processor.threshold_crossed /\ ecg_processor.peak_detected)
  /\ ecg_processor.s_array_index = ecg_processor.m_array_index
  /\ ecg_processor.m_array_index \in 0..MAX_PEAK_TO_SEARCH
  /\ ecg_processor.s_array_index < Len(ecg_processor.sample_index)
  /\ \A k \in 1..Len(ecg_processor.sample_index) :
       k > ecg_processor.s_array_index => ecg_processor.sample_index[k] = 0

\* the fourth peak of a cycle has been begun and is being searched
C36_Witness ==
  /\ ecg_processor.threshold_crossed
  /\ ~ecg_processor.peak_detected
  /\ ecg_processor.m_array_index = MAX_PEAK_TO_SEARCH
  /\ ecg_processor.s_array_index = MAX_PEAK_TO_SEARCH
  /\ ecg_processor.sample_index[MAX_PEAK_TO_SEARCH] > 0

(* ------------------------------------------------------------------ *)
(* The SpO2 calibration table, checked under SpecLookup                *)
(* ------------------------------------------------------------------ *)
\* C38 (as stated): the SpO2 calibration table has 184 entries and its
\* values are monotonically non-increasing as the index r grows.
C38_TableMonotone ==
  /\ env.looked_up => Len(uch_spo2_table) = 184
  /\ (env.looked_up /\ env.pn_spo2 # None) =>
       \A r \in 0..env.r : At(uch_spo2_table, r) >= env.pn_spo2[1]

\* C38 (amended): the table has 183 entries (indices 0..182); its values rise
\* from 95 at r = 0 to 100 at r = 24 and are non-increasing from r = 24 on,
\* down to 1 at r = 182; every value looked up lies in 1..100.
C38_TableRisesThenFalls ==
  /\ Len(uch_spo2_table) = 183
  /\ At(uch_spo2_table, 0) = 95
  /\ At(uch_spo2_table, 24) = 100
  /\ At(uch_spo2_table, 182) = 1
  /\ \A r \in 0..23 : At(uch_spo2_table, r) <= At(uch_spo2_table, r + 1)
  /\ \A r \in 24..181 : At(uch_spo2_table, r + 1) <= At(uch_spo2_table, r)
  /\ (env.looked_up /\ env.pn_spo2 # None) =>
       /\ env.pn_spo2[1] \in 1..100
       /\ env.r < 24 => env.pn_spo2[1] < At(uch_spo2_table, 24)

\* a lookup in the rising part: r = 3 gives 96, less than the 100 of r = 24
C38_Witness ==
  /\ env.looked_up
  /\ env.r = 3
  /\ env.pn_spo2 = Some(96)

(* ------------------------------------------------------------------ *)
(* SpecDc: process_current_sample called on a fresh detector with raw  *)
(* samples 0 or 65535. prev_dc_sample is a Python integer of any size; *)
(* it is kept exactly while it fits a signed 32-bit integer and is     *)
(* None once it has left that range.                                   *)
(* ------------------------------------------------------------------ *)
FILTER_ORDER == 161
NRCOEFF == 3

MaxDcCalls == 11

DcInputs == {0, 65535}

\* lines 151-152: (current_sample - prev_sample) + NRCOEFF * prev_dc_sample
\* for a difference d in -65535..65535 and a prev_dc_sample p of 32 bits:
\* Some(value) if the value fits a signed 32-bit integer, else None. Beyond
\* |p| = 700000000 the value is placed relative to 3 * 715827882 = 2^31 - 2,
\* so that no intermediate result leaves the 32-bit range either.
DcStep(d, p) ==
  IF -700000000 <= p /\ p <= 700000000 THEN Some(d + NRCOEFF * p)
  ELSE IF p > 0 THEN
    IF p - 715827882 > 21846 THEN None
    ELSE LET e == NRCOEFF * (p - 715827882) + d
         IN IF e <= 1 THEN Some(e + 2147483646) ELSE None
  ELSE
    IF p + 715827882 < -21846 THEN None
    ELSE LET e == NRCOEFF * (p + 715827882) + d
         IN IF e >= -2 THEN Some(e - 2147483646) ELSE None

\* lines 144-167 on the detector fields q = [first_flag, prev_dc_sample,
\* prev_sample, ecg_buffer, buf_start]; ecg_buffer holds 4 * ecg_data, that is
\* the prev_dc_sample the slot was written from. A prev_dc_sample beyond 32
\* bits stays beyond: its magnitude at least doubles with every call.
process_current_sample(q, current_sample) ==
  LET dc == IF q.prev_dc_sample = None THEN None
            ELSE DcStep(current_sample - q.prev_sample, q.prev_dc_sample[1])
  IN [first_flag |-> FALSE,
      prev_dc_sample |-> dc,
      prev_sample |-> current_sample,
      ecg_buffer |-> [q.ecg_buffer EXCEPT ![q.buf_start + 1] = dc],
      buf_start |-> IF q.buf_start + 1 = FILTER_ORDER THEN 0 ELSE q.buf_start + 1]

\* __init__, lines 100-107
DcInit ==
  /\ ProgInit
  /\ UiInit
  /\ env = [calls |-> 0,
            p |-> [first_flag |-> TRUE, prev_dc_sample |-> Some(0),
                   prev_sample |-> 0,
                   ecg_buffer |-> [i \in 1..FILTER_ORDER |-> Some(0)],
                   buf_start |-> 0]]

DcCall ==
  /\ env.calls < MaxDcCalls
  /\ \E current_sample \in DcInputs :
       env' = [calls |-> env.calls + 1,
               p |-> process_current_sample(env.p, current_sample)]
  /\ UNCHANGED <<decoderVars, pipeVars, uiOutVars, histVars, flagVars>>

DcNext == DcCall

SpecDc == DcInit /\ [][DcNext]_vars

\* C39 (as stated): for every sequence of raw inputs in 0..65535 the
\* DC-removal state prevDc = (raw - prevRaw) + 3 * prevDc stays within the
\* signed 32-bit range.
C39_DcWithinInt32 == env.p.prev_dc_sample # None

(* ------------------------------------------------------------------ *)
(* SpecThreads: the serial managers the GUI constructs and starts, the *)
(* module-global running flag they share, and their reader threads.    *)
(* env.managers: the SerialManager objects, each with its port and its *)
(* thread (0: None); env.threads: the reader threads ever started,     *)
(* each with its manager and its position in run (outer: at the test   *)
(* of line 75, inner: the port is open, at the loop of lines 81-93,    *)
(* done: run has returned); env.serial_manager: the GUI's manager      *)
(* (0: None); env.callers: the threads that have called process_data.  *)
(* ------------------------------------------------------------------ *)
MaxPortUpdates == 2
MaxThreadBytes == 2

Ports == {"COM11", "COM3", "COM4"}

Alive(e) == { t \in 1..Len(e.threads) : e.threads[t].pc # "done" }

\* SerialManager.start (serial_connect.py:57-67) of manager m
SerialManager_start(e, m) ==
  IF ~e.running
  THEN [e EXCEPT !.running = TRUE,
                 !.threads = Append(@, [mgr |-> m, pc |-> "outer"]),
                 !.managers[m].thread = Len(e.threads) + 1]
  ELSE e

\* SerialManager.stop (serial_connect.py:109-120) of manager m: running is
\* cleared and the manager's own thread, if alive, is joined. The other
\* threads read running unsynchronised at lines 75 and 81; those in exits
\* read it while it is False and return, the others do not.
SerialManager_stop(e, m, exits) ==
  LET own == e.managers[m].thread
  IN [e EXCEPT !.running = FALSE,
               !.threads = [t \in 1..Len(e.threads) |->
                              IF t = own \/ t \in exits
                              THEN [e.threads[t] EXCEPT !.pc = "done"]
                              ELSE e.threads[t]]]

\* SerialManager.update_port (serial_connect.py:126-141)
update_port(e, m, new_port, exits) ==
  IF new_port # e.managers[m].port
  THEN SerialManager_start(
         [SerialManager_stop(e, m, exits) EXCEPT !.managers[m].port = new_port], m)
  ELSE e

\* self.serial_manager = SerialManager(self.port, 57600, self);
\* self.serial_manager.start()   (gui.py:74-75 and gui.py:301-302)
NewStartedManager(e) ==
  LET m == Len(e.managers) + 1
  IN SerialManager_start(
       [e EXCEPT !.managers = Append(@, [port |-> e.port, thread |-> 0]),
                 !.serial_manager = m], m)

\* before Ui_MainWindow() (main.py:16): no manager, running False
ThreadsInit ==
  /\ ProgInit
  /\ UiInit
  /\ env = [gui |-> "constructing", running |-> FALSE, port |-> "COM11",
            managers |-> <<>>, threads |-> <<>>, serial_manager |-> 0,
            updates |-> 0, clicks |-> 0, sent |-> 0, callers |-> {}]

\* setupUi, called by Ui_MainWindow.__init__ (gui.py:71) and again by main
\* (main.py:18): lines 301-302
setupUi ==
  /\ env.gui \in {"constructing", "constructed"}
  /\ env' = [NewStartedManager(env) EXCEPT
               !.gui = IF env.gui = "constructing" THEN "setup" ELSE "shown"]
  /\ UNCHANGED <<decoderVars, pipeVars, uiOutVars, histVars, flagVars>>

\* the end of Ui_MainWindow.__init__: gui.py:74-75
Ui_MainWindow_init ==
  /\ env.gui = "setup"
  /\ env' = [NewStartedManager(env) EXCEPT !.gui = "constructed"]
  /\ UNCHANGED <<decoderVars, pipeVars, uiOutVars, histVars, flagVars>>

\* gui.py:395-398: the user selects a port in the combo box
port_update_status(selected_port) ==
  /\ env.gui = "shown"
  /\ env.updates < MaxPortUpdates
  /\ \E exits \in SUBSET (Alive(env) \ {env.managers[env.serial_manager].thread}) :
       env' = [update_port([env EXCEPT !.port = selected_port],
                           env.serial_manager, selected_port, exits)
                 EXCEPT !.updates = @ + 1]
  /\ UNCHANGED <<decoderVars, pipeVars, uiOutVars, histVars, flagVars>>

\* serial_connect.py:75-80: thread t finds running set and opens its port
ThreadOpen(t) ==
  /\ env.threads[t].pc = "outer"
  /\ env.running
  /\ env' = [env EXCEPT !.threads[t].pc = "inner"]
  /\ UNCHANGED <<decoderVars, pipeVars, uiOutVars, histVars, flagVars>>

\* serial_connect.py:83-90: thread t takes one byte read from its port
ThreadByte(t) ==
  /\ env.threads[t].pc = "inner"
  /\ env.sent < MaxThreadBytes
  /\ IF SerialGatePasses
     THEN /\ \E ovf \in OverflowOutcomes : process_data(CES_CMDIF_PKT_START_1, ovf)
          /\ env' = [env EXCEPT !.sent = @ + 1, !.callers = @ \cup {t}]
     ELSE /\ env' = [env EXCEPT !.sent = @ + 1]
          /\ UNCHANGED <<decoderVars, pipeVars, uiOutVars, histVars>>
  /\ UNCHANGED flagVars

ThreadsNext ==
  \/ setupUi
  \/ Ui_MainWindow_init
  \/ \E selected_port \in Ports : port_update_status(selected_port)
  \/ \E t \in Alive(env) : ThreadOpen(t)
  \/ \E t \in Alive(env) : ThreadByte(t)
  \/ toggle_data_receiving

SpecThreads == ThreadsInit /\ [][ThreadsNext]_vars

\* C37 (as stated): at most one serial reader thread is alive at any time,
\* after any sequence of SerialManager constructions and start, stop and
\* update_port calls made by the GUI; hence at most one serial thread ever
\* calls process_data.
C37_OneSerialThread ==
  /\ Cardinality(Alive(env)) <= 1
  /\ Cardinality(env.callers) <= 1

====
